---- MODULE Spec2Model ----
(***************************************************************************)
(* Verification model of the image-processing core of the screenshot tool: *)
(*   - ImagePyramid           (src/gui/image_canvas.py)                    *)
(*   - ProcessingQueue        (src/core/edge_detection.py)                 *)
(*   - EdgeDetectionManager   (src/core/edge_detection.py)                 *)
(*   - CircleDetector.filter_circles (src/core/circle_detection.py)        *)
(*                                                                         *)
(* Each component has its own specification over its own variables; the    *)
(* variables of the other components stay at their initial values.         *)
(*                                                                         *)
(* Representation choices:                                                 *)
(*   - memory is counted in bytes (the code's MB value times 2^20; the     *)
(*     division by 1024*1024 is exact in binary floating point, so every   *)
(*     comparison of the code is preserved);                               *)
(*   - a zoom factor is a number of quarters (4 stands for 1.0, 1 for      *)
(*     0.25, 8 for 2.0): these factors are exact floats, so int(w * zoom)  *)
(*     is (w * z) \div 4;                                                  *)
(*   - a dict is a sequence in insertion order, as CPython iterates it.    *)
(***************************************************************************)
EXTENDS Integers, Sequences, FiniteSets, TLC

VARIABLES
    \* ---- ImagePyramid ----
    max_memory,        \* self.max_memory_mb, in bytes
    pyramid,           \* self.pyramid: sequence of [zoom, w, h, mode] in insertion order
    base_image,        \* self.base_image: [w, h, mode], or NoImage
    current_memory,    \* self.current_memory_mb, in bytes
    cleanup_log,       \* zoom levels handed to on_memory_cleanup by the last call
    zoom_result,       \* what the last call returned, if it was a get_image_at_zoom miss
    \* ---- ProcessingQueue ----
    running,           \* self.running
    task_queue,        \* self.task_queue: sequence of task ids
    pending_task,      \* self.pending_task: a task id, or NoTask
    last_request_time, \* self.last_request_time, in ticks
    now,               \* time.time(), in ticks of 0.1 s
    d_pc,              \* where the debounce thread is in _debounce_worker
    current_time,      \* the local current_time of _debounce_worker
    d_wake,            \* the tick at which the thread's time.sleep(0.1) ends
    w_pc,              \* where each worker thread is in _worker
    w_task,            \* the local task of each worker
    executed,          \* the task ids whose func has been called, in order
    s_pc,              \* where the submitting thread is in submit_debounced
    s_task,            \* the task of the submit_debounced call in progress
    arrival,           \* arrival[t]: the tick at which submit_debounced call t was made
    \* ---- EdgeDetectionManager ----
    params,            \* self.params: the fields of EdgeDetectionParams read by the model
    result_cache,      \* self.result_cache: sequence of [key, result] in insertion order
    statistics,        \* self.statistics
    clock,             \* time.time(), as read by the manager
    last_call,         \* the last call made on the manager, and what it returned
    calls,             \* number of calls made on the manager
    t_pc,              \* where each worker thread is in detect_edges_sync
    t_local,           \* the locals of each worker's call: image, cache_key, result
                       \* timestamp, oldest_key
    \* ---- CircleDetector.filter_circles ----
    circles,           \* the list handed to filter_circles
    filter_call,       \* the arguments of the filter_circles call made on it, if any
    filtered,          \* the list that call returned
    \* ---- CircleCapture ----
    extract_call,      \* the last extract_circle_region call: arguments and outcome
    capture_call,      \* the last capture_circles call: arguments, environment, outcome
    \* ---- CircleDetector ----
    confidence_call,   \* the last calculate_confidence call: arguments, pixel counts
                       \* measured on the image, scores
    detector_params,   \* self.params of the CircleDetector
    adjust_call,       \* the last auto_adjust_params call: image statistics, the
                       \* detector's params before the call, the params returned
    \* ---- ModernHotkeyManager ----
    hotkey_call,       \* the last validate_hotkey_with_details call: argument, verdict
    \* ---- ConfigManager ----
    default_config,    \* self._default_config: the items of its nested dicts
    config,            \* self._config: for each section, whether its nested dict is
                       \* the very object held by _default_config, else its items
    config_call,       \* the last call made on the ConfigManager
    \* ---- BatchProcessor ----
    progress,          \* self.progress: status, processed_files
    is_paused,         \* self.is_paused
    is_cancelled,      \* self.is_cancelled
    futures,           \* self.futures: the state of the future of each batch item
    item_status,       \* the status of each batch item
    m_pc,              \* where the monitor thread is in _monitor_progress
    m_local,           \* its locals: the index i, completed_count, error_count
    callbacks,         \* how often on_item_completed was called for each item, and
                       \* on_batch_completed for the batch
    user_calls,        \* how many pause_processing and resume_processing calls were made
    \* ---- ScreenshotCapture ----
    is_capturing,      \* self.is_capturing
    capture_thread,    \* self.continuous_capture_thread: a thread, or NoThread
    loop_pc,           \* where each thread started so far is in capture_loop
    caller_pc,         \* where the caller is: idle, or in the join of stop_continuous_capture
    \* ---- ProcessingQueue.shutdown ----
    sd_pc,             \* where the caller of shutdown is: not called, putting, returned
    sd_puts,           \* how many None it has put on the queue
    sd_pending,        \* the debounced task that was pending, not yet promoted, when
                       \* shutdown cleared self.running
    sd_submitted       \* how many tasks had been submitted when shutdown returned

pyrVars == <<max_memory, pyramid, base_image, current_memory, cleanup_log, zoom_result>>

queueVars == <<running, task_queue, pending_task, last_request_time, now, d_pc,
               current_time, d_wake, w_pc, w_task, executed, s_pc, s_task, arrival>>

edgeVars == <<params, result_cache, statistics, clock, last_call, calls>>

threadVars == <<t_pc, t_local>>

filterVars == <<circles, filter_call, filtered>>

captureVars == <<extract_call, capture_call>>

detectorVars == <<confidence_call, detector_params, adjust_call>>

\* the variables of the components that are called once
hotkeyVars == <<hotkey_call>>

configVars == <<default_config, config, config_call>>

batchVars == <<progress, is_paused, is_cancelled, futures, item_status, m_pc, m_local,
               callbacks, user_calls>>

shotVars == <<is_capturing, capture_thread, loop_pc, caller_pc>>

shutdownVars == <<sd_pc, sd_puts, sd_pending, sd_submitted>>

calledVars == <<captureVars, detectorVars, hotkeyVars, configVars, batchVars, shotVars>>

vars == <<pyrVars, queueVars, edgeVars, threadVars, filterVars, calledVars, shutdownVars>>

\* what an operation of one component leaves alone: the other components
notPyramid == <<queueVars, edgeVars, threadVars, filterVars, calledVars, shutdownVars>>
notProcessingQueue == <<pyrVars, edgeVars, threadVars, filterVars, calledVars>>
notQueue == <<notProcessingQueue, shutdownVars>>
notEdge == <<pyrVars, queueVars, threadVars, filterVars, calledVars, shutdownVars>>
notThreads == <<pyrVars, queueVars, filterVars, calledVars, params, last_call, shutdownVars>>
notFilter == <<pyrVars, queueVars, edgeVars, threadVars, calledVars, shutdownVars>>
notCalled == <<pyrVars, queueVars, edgeVars, threadVars, filterVars, shutdownVars>>
notCapture == <<notCalled, detectorVars, hotkeyVars, configVars, batchVars, shotVars>>
notDetector == <<notCalled, captureVars, hotkeyVars, configVars, batchVars, shotVars>>
notHotkey == <<notCalled, captureVars, detectorVars, configVars, batchVars, shotVars>>
notConfig == <<notCalled, captureVars, detectorVars, hotkeyVars, batchVars, shotVars>>
notBatch == <<notCalled, captureVars, detectorVars, hotkeyVars, configVars, shotVars>>
notShot == <<notCalled, captureVars, detectorVars, hotkeyVars, configVars, batchVars>>

----------------------------------------------------------------------------
(* Bounds of the model *)

\* largest side, in pixels, of an image handed to set_base_image
MaxSide == 5

\* smallest side of such an image
MinSide == 4

Sides == MinSide..MaxSide

\* memory budgets, in bytes: too small for any image, smaller than a base image,
\* room for a few levels, room for every level
Budgets == {4, 48, 300, 4000}

\* zoom factors requested, in quarters: 0.25 0.5 0.75 1.0 1.25 1.5 2.0
ZoomFactors == {1, 2, 3, 4, 5, 6, 8}

Modes == {"L", "RGB", "RGBA"}

\* number of submit_debounced calls made
MaxTasks == 3

\* last tick at which a submit_debounced call is made
MaxSubmitTime == 4

\* number of calls made on an EdgeDetectionManager
MaxCalls == 4

\* arguments given for threshold1, threshold2, blur_kernel_size and aperture_size
\* when EdgeDetectionParams are constructed or updated
Threshold1Args == {0, 100, 255}
Threshold2Args == {50, 300}
BlurArgs == {1, 4}
ApertureArgs == {3, 4}

\* largest number of circles in a list handed to filter_circles
MaxLen == 3

\* number of items of the batch
MaxItems == 2

\* largest number of capture loop threads started
MaxLoops == 3

\* largest number of pause_processing calls, and of resume_processing calls
MaxPauses == 1

\* the count at which the model stops counting the calls of a callback
MaxCallbacks == 2

\* centres, radii and confidences (in tenths) of these circles; two circles of
\* radius 3 whose centres are 2 apart overlap, and (2,0) and (0,2) do not
Centres == {<<0, 0>>, <<2, 0>>, <<0, 2>>}
Radii == {1, 3}
Confidences == {2, 5}

\* the min_confidence (in tenths) and max_circles arguments of filter_circles:
\* the defaults, and smaller ones
MinConfidences == {0, 3}
MaxCirclesArgs == {1, 2, 10}

\* largest absolute value of a coordinate of a circle handed to
\* extract_circle_region
MaxCoord == 7

\* the x and y of these circles: left of, inside and right of the image
ExtractXs == (-MaxCoord)..MaxCoord
ExtractYs == {-3, 1, 5}

\* their radii, and the padding argument
ExtractRadii == 0..2
Paddings == {0, 1}

\* width and height of the images handed to extract_circle_region; an array with
\* a zero dimension has size 0
ImageShapes == {<<0, 3>>, <<3, 3>>, <<4, 3>>}

\* largest number of circles in a list handed to capture_circles
MaxCaptured == 3

\* side of the square grayscale image handed to calculate_confidence
ConfidenceSide == 6

\* the circles scored on it: centres on one row, in and out of the image, radii
\* that fit and that do not
ConfidenceXs == (-1)..ConfidenceSide
ConfidenceYs == {2}
ConfidenceRadii == 0..3

\* what the image gives for a circle inside it: pixels of the 2-pixel ring, edge
\* pixels among them, sampled points with an edge nearby, variance of the centre
\* region (of uint8 values: at most 127.5 squared)
RingPixels == {4, 12}

\* values of param1 and param2 given to the detector by set_params: below, at
\* and above the floors and ceilings of auto_adjust_params
Param1s == {20, 40, 50, 90, 110}
Param2s == {10, 25, 30, 45, 60}

\* mean and standard deviation of the preprocessed image, around the thresholds
\* of auto_adjust_params
MeanIntensities == {99, 100, 101, 180, 181}
Contrasts == {29, 30, 31, 80, 81}

\* largest number of pieces of a hotkey string
MaxPieces == 5

\* the pieces a hotkey string is made of: key names, the separator and a space
KeyNames == {"ctrl", "shift", "s"}
Pieces == KeyNames \cup {"+", " "}
SampledPoints == {0, 9, 36}
CentreVariances == {0, 51, 255, 16256}

----------------------------------------------------------------------------
(* ImagePyramid *)

\* None
NoImage == [w |-> 0, h |-> 0, mode |-> "None"]

\* ImagePyramid.__init__: max_levels
max_levels == 6

\* the key 1.0 of the base level
BaseZoom == 4

\* common_zoom_levels = {1.0, 0.5, 0.25, 2.0, 1.5}
common_zoom_levels == {4, 2, 1, 8, 6}

\* importance_order = [1.0, 0.5, 2.0, 1.5, 0.25]
importance_order == <<4, 2, 8, 6, 1>>

BytesPerPixel(mode) ==
    CASE mode = "RGBA" -> 4
      [] mode = "RGB"  -> 3
      [] mode = "L"    -> 1
      [] OTHER         -> 4

\* _calculate_image_memory
CalculateImageMemory(img) ==
    IF img = NoImage THEN 0 ELSE img.w * img.h * BytesPerPixel(img.mode)

RECURSIVE SumMemory(_)
\* the summed memory of the levels held in a pyramid
SumMemory(pyr) ==
    IF pyr = <<>> THEN 0
    ELSE CalculateImageMemory([w |-> Head(pyr).w, h |-> Head(pyr).h, mode |-> Head(pyr).mode])
         + SumMemory(Tail(pyr))

Keys(pyr) == {pyr[i].zoom : i \in 1..Len(pyr)}

Level(pyr, z) == CHOOSE l \in {pyr[i] : i \in 1..Len(pyr)} : l.zoom = z

LevelImage(l) == [w |-> l.w, h |-> l.h, mode |-> l.mode]

RECURSIVE RemoveKey(_, _)
\* del self.pyramid[zoom_level]
RemoveKey(pyr, z) ==
    IF pyr = <<>> THEN <<>>
    ELSE IF Head(pyr).zoom = z THEN Tail(pyr)
    ELSE <<Head(pyr)>> \o RemoveKey(Tail(pyr), z)

RECURSIVE SelectSeqOf(_, _)
\* [level for level in zoom_levels if level in S], order kept
SelectSeqOf(s, S) ==
    IF s = <<>> THEN <<>>
    ELSE (IF Head(s) \in S THEN <<Head(s)>> ELSE <<>>) \o SelectSeqOf(Tail(s), S)

Abs(n) == IF n < 0 THEN -n ELSE n

RemoveAt(s, i) == SubSeq(s, 1, i - 1) \o SubSeq(s, i + 1, Len(s))

RECURSIVE SortByDistanceDesc(_)
\* uncommon_levels.sort(key=lambda x: abs(x - 1.0), reverse=True): stable, so
\* levels at the same distance keep their order
SortByDistanceDesc(s) ==
    IF s = <<>> THEN <<>>
    ELSE LET far == CHOOSE i \in 1..Len(s) :
                        /\ \A j \in 1..Len(s) : Abs(s[j] - BaseZoom) <= Abs(s[i] - BaseZoom)
                        /\ \A j \in 1..(i - 1) : Abs(s[j] - BaseZoom) < Abs(s[i] - BaseZoom)
         IN  <<s[far]>> \o SortByDistanceDesc(RemoveAt(s, far))

\* common_levels sorted by importance_order.index, without "reversed": most
\* important first
SortedByImportance(S) == SelectSeqOf(importance_order, S)

\* reversed(common_levels sorted by importance_order.index): least important first
ReversedByImportance(S) ==
    LET rev == [i \in 1..Len(importance_order) |->
                    importance_order[Len(importance_order) + 1 - i]]
    IN  SelectSeqOf(rev, S)

\* CandidateLevels without "zoom_levels.remove(1.0)"
CandidateLevelsWithBase(pyr) == [i \in 1..Len(pyr) |-> pyr[i].zoom]

\* zoom_levels: the keys, without 1.0 ("always keep the base image")
CandidateLevels(pyr) ==
    LET keys == [i \in 1..Len(pyr) |-> pyr[i].zoom]
    IN  SelectSeqOf(keys, Keys(pyr) \ {BaseZoom})

\* cleanup_order of _cleanup_memory
CleanupOrder(pyr) ==
    LET zoom_levels == CandidateLevels(pyr)
        common      == {z \in Keys(pyr) : z \in common_zoom_levels}
        uncommon    == SelectSeqOf(zoom_levels, Keys(pyr) \ common_zoom_levels)
    IN  SortByDistanceDesc(uncommon)
        \o ReversedByImportance({z \in common : \E i \in 1..Len(zoom_levels) : zoom_levels[i] = z})

RECURSIVE CleanupLoop(_, _, _, _, _, _)
\* the loop "for zoom_level in cleanup_order" of _cleanup_memory
CleanupLoop(order, pyr, cur, required, max, log) ==
    IF order = <<>> \/ cur + required <= max
    THEN [pyramid |-> pyr, current |-> cur, log |-> log]
    ELSE IF Head(order) \in Keys(pyr)
    THEN CleanupLoop(Tail(order), RemoveKey(pyr, Head(order)),
                     cur - CalculateImageMemory(LevelImage(Level(pyr, Head(order)))),
                     required, max, Append(log, Head(order)))
    ELSE CleanupLoop(Tail(order), pyr, cur, required, max, log)

\* _cleanup_memory(required_memory)
CleanupMemory(pyr, cur, required, max) ==
    IF pyr = <<>>
    THEN [pyramid |-> pyr, current |-> cur, log |-> <<>>]
    ELSE CleanupLoop(CleanupOrder(pyr), pyr, cur, required, max, <<>>)

\* new_size = (int(size[0] * zoom_factor), int(size[1] * zoom_factor))
NewSize(img, z) == [w |-> (img.w * z) \div 4, h |-> (img.h * z) \div 4]

\* EstimatedMemory counting one byte per pixel
EstimatedMemoryOneByte(size) == size.w * size.h

\* estimated_memory = new_size[0] * new_size[1] * 3 / (1024 * 1024)
EstimatedMemory(size) == size.w * size.h * 3

\* _create_scaled_image_optimized / _progressive_downscale: the base image resized
\* to new_size, same mode; PIL's resize raises on an empty size, both methods catch
\* it and return None
CreateScaledImage(img, size) ==
    IF size.w < 1 \/ size.h < 1 THEN NoImage
    ELSE [w |-> size.w, h |-> size.h, mode |-> img.mode]

\* int(side * (max_memory_mb * 0.8 / base_memory) ** 0.5): the largest k with
\* k * k * 5 * base_memory <= side * side * 4 * max_memory
ScaledSide(side, max, base_memory) ==
    CHOOSE k \in 0..side :
        /\ 5 * base_memory * k * k <= 4 * max * side * side
        /\ (k < side => 5 * base_memory * (k + 1) * (k + 1) > 4 * max * side * side)

\* the last call was not a get_image_at_zoom miss
NoZoomResult == [zoom |-> 0, path |-> "none", image |-> NoImage]

\* get_image_at_zoom(z) missed and returned image at the return statement named
\* by path
Returned(z, path, image) == [zoom |-> z, path |-> path, image |-> image]

\* HasRoom without the test
HasRoomAlways(pyr) == TRUE

\* if len(self.pyramid) < self.max_levels
HasRoom(pyr) == Len(pyr) < max_levels

\* StoreLevel, adding estimated_memory instead of actual_memory
StoreLevelEstimated(cleaned, z, scaled) ==
    [pyramid |-> Append(cleaned.pyramid,
                        [zoom |-> z, w |-> scaled.w, h |-> scaled.h, mode |-> scaled.mode]),
     current |-> cleaned.current + EstimatedMemory(scaled)]

\* "self.pyramid[zoom_factor] = scaled_image; self.current_memory_mb +=
\* actual_memory", on the pyramid and usage left by the cleanup
StoreLevel(cleaned, z, scaled) ==
    [pyramid |-> Append(cleaned.pyramid,
                        [zoom |-> z, w |-> scaled.w, h |-> scaled.h, mode |-> scaled.mode]),
     current |-> cleaned.current + CalculateImageMemory(scaled)]

\* SkipCache, storing the image it creates
SkipCacheStoring(cleaned, z, scaled) ==
    IF scaled = NoImage
    THEN [pyramid |-> cleaned.pyramid, current |-> cleaned.current]
    ELSE StoreLevel(cleaned, z, scaled)

\* "still over the limit: return without caching": the pyramid and usage are
\* those left by the cleanup
SkipCache(cleaned, z, scaled) ==
    [pyramid |-> cleaned.pyramid, current |-> cleaned.current]

PyrInit ==
    /\ max_memory \in Budgets
    /\ pyramid = <<>>
    /\ base_image = NoImage
    /\ current_memory = 0
    /\ cleanup_log = <<>>
    /\ zoom_result = NoZoomResult

\* set_base_image(image)
SetBaseImage ==
    \E w \in Sides, h \in {MinSide}, mode \in Modes :
        LET image       == [w |-> w, h |-> h, mode |-> mode]
            base_memory == CalculateImageMemory(image)
            new_size    == [w |-> ScaledSide(w, max_memory, base_memory),
                            h |-> ScaledSide(h, max_memory, base_memory)]
            resized     == CreateScaledImage(image, new_size)
        IN  /\ cleanup_log' = <<>>
            /\ zoom_result' = NoZoomResult
            /\ UNCHANGED max_memory
            /\ IF base_memory > max_memory
               THEN IF resized = NoImage
                    THEN \* resize raises: the pyramid is already cleared and
                         \* base_image already holds the unscaled image
                         /\ pyramid' = <<>>
                         /\ current_memory' = 0
                         /\ base_image' = image
                    ELSE /\ base_image' = resized
                         /\ pyramid' = <<[zoom |-> BaseZoom, w |-> resized.w,
                                          h |-> resized.h, mode |-> mode]>>
                         /\ current_memory' = CalculateImageMemory(resized)
               ELSE /\ base_image' = image
                    /\ pyramid' = <<[zoom |-> BaseZoom, w |-> w, h |-> h, mode |-> mode]>>
                    /\ current_memory' = base_memory
            /\ UNCHANGED notPyramid

\* get_image_at_zoom(zoom_factor), zoom_factor being z quarters
GetImageAtZoomOf(z) ==
        /\ UNCHANGED <<max_memory, base_image>>
        /\ UNCHANGED notPyramid
        /\ IF base_image = NoImage
           THEN \* return None
                /\ cleanup_log' = <<>>
                /\ zoom_result' = NoZoomResult
                /\ UNCHANGED <<pyramid, current_memory>>
           ELSE IF z \in Keys(pyramid)
           THEN \* cached: return self.pyramid[zoom_factor]
                /\ cleanup_log' = <<>>
                /\ zoom_result' = NoZoomResult
                /\ UNCHANGED <<pyramid, current_memory>>
           ELSE LET new_size == NewSize(base_image, z)
                    est      == EstimatedMemory(new_size)
                    cleaned  == IF current_memory + est > max_memory
                                THEN CleanupMemory(pyramid, current_memory, est, max_memory)
                                ELSE [pyramid |-> pyramid, current |-> current_memory,
                                      log |-> <<>>]
                    scaled   == CreateScaledImage(base_image, new_size)
                IN  /\ cleanup_log' = cleaned.log
                    /\ IF cleaned.current + est > max_memory
                       THEN \* still over the limit: created, not cached
                            /\ zoom_result' = Returned(z, "uncached", scaled)
                            /\ pyramid' = SkipCache(cleaned, z, scaled).pyramid
                            /\ current_memory' = SkipCache(cleaned, z, scaled).current
                       ELSE IF scaled # NoImage /\ HasRoom(cleaned.pyramid)
                       THEN /\ zoom_result' = Returned(z, "cached", scaled)
                            /\ pyramid' = StoreLevel(cleaned, z, scaled).pyramid
                            /\ current_memory' = StoreLevel(cleaned, z, scaled).current
                       ELSE \* no scaled image, or max_levels levels already
                            /\ zoom_result' = Returned(z, "created", scaled)
                            /\ pyramid' = cleaned.pyramid
                            /\ current_memory' = cleaned.current

\* get_image_at_zoom is called
GetImageAtZoom == \E z \in ZoomFactors : GetImageAtZoomOf(z)

\* set_memory_limit(max_memory_mb), max_memory_mb being m bytes
SetMemoryLimitTo(m) ==
        LET cleaned == IF m < max_memory /\ current_memory > m
                       THEN CleanupMemory(pyramid, current_memory, 0, m)
                       ELSE [pyramid |-> pyramid, current |-> current_memory, log |-> <<>>]
        IN  /\ max_memory' = m
            /\ pyramid' = cleaned.pyramid
            /\ current_memory' = cleaned.current
            /\ cleanup_log' = cleaned.log
            /\ zoom_result' = NoZoomResult
            /\ UNCHANGED base_image
            /\ UNCHANGED notPyramid

\* set_memory_limit is called
SetMemoryLimit == \E m \in Budgets : SetMemoryLimitTo(m)

\* clear()
Clear ==
    /\ pyramid' = <<>>
    /\ base_image' = NoImage
    /\ current_memory' = 0
    /\ cleanup_log' = <<>>
    /\ zoom_result' = NoZoomResult
    /\ UNCHANGED max_memory
    /\ UNCHANGED notPyramid

----------------------------------------------------------------------------
(* ProcessingQueue *)

\* pending_task = None, and the None put on the queue by shutdown
NoTask == 0

\* ProcessingQueue(max_workers=2, ...)
max_workers == 2

\* debounce_delay = 0.3, in ticks of 0.1 s
debounce_delay == 3

Workers == 1..max_workers

\* the clock stops once every task submitted by MaxSubmitTime had the time to be
\* promoted
MaxTime == MaxSubmitTime + debounce_delay + 2

\* ProcessingQueue.__init__: the threads are started, the debounce thread enters
\* its first time.sleep(0.1)
QueueInit ==
    /\ running = TRUE
    /\ task_queue = <<>>
    /\ pending_task = NoTask
    /\ last_request_time = 0
    /\ now = 0
    /\ d_pc = "sleep"
    /\ current_time = 0
    /\ d_wake = 1
    /\ w_pc = [w \in Workers |-> "get"]
    /\ w_task = [w \in Workers |-> NoTask]
    /\ executed = <<>>
    /\ s_pc = "idle"
    /\ s_task = NoTask
    /\ arrival = <<>>
    /\ sd_pc = "idle"
    /\ sd_puts = 0
    /\ sd_pending = NoTask
    /\ sd_submitted = 0

\* Time passes. The statements of submit_debounced and of one round of
\* _debounce_worker take less than a tick, and the sleep of 0.1 s ends on time:
\* the clock moves only while the debounce thread sleeps and no call is in progress.
Tick ==
    /\ now < MaxTime
    /\ s_pc = "idle"
    /\ d_pc = "sleep" /\ now < d_wake
    /\ now' = now + 1
    /\ UNCHANGED <<running, task_queue, pending_task, last_request_time, d_pc,
                   current_time, d_wake, w_pc, w_task, executed, s_pc, s_task, arrival>>
    /\ UNCHANGED notQueue

\* the end of a round of _debounce_worker: "while self.running", then time.sleep(0.1)
DebounceLoop ==
    /\ d_pc' = IF running THEN "sleep" ELSE "stopped"
    /\ d_wake' = now + 1

\* _debounce_worker: time.sleep(0.1) returns; current_time = time.time()
DebounceWake ==
    /\ d_pc = "sleep"
    /\ now >= d_wake
    /\ current_time' = now
    /\ d_pc' = "test_pending"
    /\ UNCHANGED <<running, task_queue, pending_task, last_request_time, now, d_wake,
                   w_pc, w_task, executed, s_pc, s_task, arrival>>
    /\ UNCHANGED notQueue

\* _debounce_worker: "if self.pending_task and ..."
DebounceTestPending ==
    /\ d_pc = "test_pending"
    /\ IF pending_task # NoTask
       THEN d_pc' = "test_time" /\ UNCHANGED d_wake
       ELSE DebounceLoop
    /\ UNCHANGED <<running, task_queue, pending_task, last_request_time, now,
                   current_time, w_pc, w_task, executed, s_pc, s_task, arrival>>
    /\ UNCHANGED notQueue

\* _debounce_worker: "... current_time - self.last_request_time >= self.debounce_delay"
DebounceTestTime ==
    /\ d_pc = "test_time"
    /\ IF current_time - last_request_time >= debounce_delay
       THEN d_pc' = "put" /\ UNCHANGED d_wake
       ELSE DebounceLoop
    /\ UNCHANGED <<running, task_queue, pending_task, last_request_time, now,
                   current_time, w_pc, w_task, executed, s_pc, s_task, arrival>>
    /\ UNCHANGED notQueue

\* _debounce_worker: self.task_queue.put(self.pending_task)
DebouncePut ==
    /\ d_pc = "put"
    /\ task_queue' = Append(task_queue, pending_task)
    /\ d_pc' = "reset"
    /\ UNCHANGED <<running, pending_task, last_request_time, now, current_time, d_wake,
                   w_pc, w_task, executed, s_pc, s_task, arrival>>
    /\ UNCHANGED notQueue

\* _debounce_worker: self.pending_task = None
DebounceReset ==
    /\ d_pc = "reset"
    /\ pending_task' = NoTask
    /\ DebounceLoop
    /\ UNCHANGED <<running, task_queue, last_request_time, now, current_time,
                   w_pc, w_task, executed, s_pc, s_task, arrival>>
    /\ UNCHANGED notQueue

\* submit_debounced: self.last_request_time = time.time()
SubmitDebounced ==
    /\ s_pc = "idle"
    /\ Len(arrival) < MaxTasks
    /\ now <= MaxSubmitTime
    /\ last_request_time' = now
    /\ s_task' = Len(arrival) + 1
    /\ arrival' = Append(arrival, now)
    /\ s_pc' = "store"
    /\ UNCHANGED <<running, task_queue, pending_task, now, d_pc, current_time, d_wake,
                   w_pc, w_task, executed>>
    /\ UNCHANGED notQueue

\* submit_debounced: self.pending_task = (func, args, kwargs, callback)
SubmitStore ==
    /\ s_pc = "store"
    /\ pending_task' = s_task
    /\ s_pc' = "idle"
    /\ UNCHANGED <<running, task_queue, last_request_time, now, d_pc, current_time,
                   d_wake, w_pc, w_task, executed, s_task, arrival>>
    /\ UNCHANGED notQueue

\* _worker: task = self.task_queue.get(timeout=1.0); "if task is None: break"
WorkerGet(w) ==
    /\ w_pc[w] = "get"
    /\ task_queue # <<>>
    /\ task_queue' = Tail(task_queue)
    /\ w_task' = [w_task EXCEPT ![w] = Head(task_queue)]
    /\ w_pc' = [w_pc EXCEPT ![w] = IF Head(task_queue) = NoTask THEN "stopped" ELSE "run"]
    /\ UNCHANGED <<running, pending_task, last_request_time, now, d_pc, current_time,
                   d_wake, executed, s_pc, s_task, arrival>>
    /\ UNCHANGED notQueue

\* _worker: result = func(*args, **kwargs); callback(result); task_done();
\* "while self.running"
WorkerRun(w) ==
    /\ w_pc[w] = "run"
    /\ executed' = Append(executed, w_task[w])
    /\ w_task' = [w_task EXCEPT ![w] = NoTask]
    /\ w_pc' = [w_pc EXCEPT ![w] = IF running THEN "get" ELSE "stopped"]
    /\ UNCHANGED <<running, task_queue, pending_task, last_request_time, now, d_pc,
                   current_time, d_wake, s_pc, s_task, arrival>>
    /\ UNCHANGED notQueue

QueueNext ==
    \/ Tick
    \/ DebounceWake
    \/ DebounceTestPending
    \/ DebounceTestTime
    \/ DebouncePut
    \/ DebounceReset
    \/ SubmitDebounced
    \/ SubmitStore
    \/ \E w \in Workers : WorkerGet(w)
    \/ \E w \in Workers : WorkerRun(w)

\* submit_immediate: self.task_queue.put((func, args, kwargs, callback))
SubmitImmediate ==
    /\ s_pc = "idle"
    /\ Len(arrival) < MaxTasks
    /\ now <= MaxSubmitTime
    /\ arrival' = Append(arrival, now)
    /\ task_queue' = Append(task_queue, Len(arrival) + 1)
    /\ UNCHANGED <<running, pending_task, last_request_time, now, d_pc, current_time,
                   d_wake, w_pc, w_task, executed, s_pc, s_task>>
    /\ UNCHANGED notQueue

\* _worker: task_queue.get(timeout=1.0) raises queue.Empty; "continue", then
\* "while self.running"
WorkerGetEmpty(w) ==
    /\ w_pc[w] = "get"
    /\ task_queue = <<>>
    /\ w_pc' = [w_pc EXCEPT ![w] = IF running THEN "get" ELSE "stopped"]
    /\ UNCHANGED <<running, task_queue, pending_task, last_request_time, now, d_pc,
                   current_time, d_wake, w_task, executed, s_pc, s_task, arrival>>
    /\ UNCHANGED notQueue

\* shutdown: self.running = False. The caller is the thread that submits, and it
\* calls while the clock of the model can still move.
ShutdownStop ==
    /\ sd_pc = "idle"
    /\ s_pc = "idle"
    /\ now < MaxTime
    /\ running' = FALSE
    /\ sd_pc' = "put"
    /\ sd_pending' = IF d_pc # "reset" THEN pending_task ELSE NoTask
    /\ UNCHANGED <<sd_puts, sd_submitted>>
    /\ UNCHANGED <<task_queue, pending_task, last_request_time, now, d_pc, current_time,
                   d_wake, w_pc, w_task, executed, s_pc, s_task, arrival>>
    /\ UNCHANGED notProcessingQueue

\* shutdown: "for _ in self.workers: self.task_queue.put(None)", one round; after
\* the last round shutdown returns
ShutdownPut ==
    /\ sd_pc = "put"
    /\ task_queue' = Append(task_queue, NoTask)
    /\ sd_puts' = sd_puts + 1
    /\ sd_pc' = IF sd_puts + 1 = max_workers THEN "done" ELSE "put"
    /\ sd_submitted' = Len(arrival)
    /\ UNCHANGED sd_pending
    /\ UNCHANGED <<running, pending_task, last_request_time, now, d_pc, current_time,
                   d_wake, w_pc, w_task, executed, s_pc, s_task, arrival>>
    /\ UNCHANGED notProcessingQueue

\* tasks submitted to a queue that is shut down
MaxShutdownTasks == 2

\* the caller of shutdown is not inside it, and may submit one more task
NotInShutdown == sd_pc # "put"

MaySubmit == NotInShutdown /\ Len(arrival) < MaxShutdownTasks

\* the threads of a ProcessingQueue, and a thread that submits and shuts down
ShutdownNext ==
    \/ Tick /\ NotInShutdown
    \/ DebounceWake
    \/ DebounceTestPending
    \/ DebounceTestTime
    \/ DebouncePut
    \/ DebounceReset
    \/ SubmitDebounced /\ MaySubmit
    \/ SubmitStore
    \/ SubmitImmediate /\ MaySubmit
    \/ \E w \in Workers : WorkerGet(w)
    \/ \E w \in Workers : WorkerGetEmpty(w)
    \/ \E w \in Workers : WorkerRun(w)
    \/ ShutdownStop
    \/ ShutdownPut

----------------------------------------------------------------------------
(* EdgeDetectionParams and EdgeDetectionManager *)

\* self.cache_size_limit
cache_size_limit == 10

Max(a, b) == IF a >= b THEN a ELSE b

Min(a, b) == IF a <= b THEN a ELSE b

\* EdgeDetectionParams.__post_init__
PostInit(p) ==
    LET t1   == Max(1, Min(255, p.threshold1))
        t2   == Max(1, Min(255, p.threshold2))
        blur == Max(3, p.blur_kernel_size)
    IN  [threshold1       |-> t1,
         threshold2       |-> IF t2 <= t1 THEN t1 + 50 ELSE t2,
         blur_kernel_size |-> IF blur % 2 = 0 THEN blur + 1 ELSE blur,
         aperture_size    |-> p.aperture_size]

\* the EdgeDetectionParams objects a caller can construct
ParamsArgs ==
    [threshold1 : Threshold1Args, threshold2 : Threshold2Args,
     blur_kernel_size : BlurArgs, aperture_size : ApertureArgs]

ParamFields == {"threshold1", "threshold2", "blur_kernel_size", "aperture_size"}

\* EdgeDetectionParams(): the defaults
DefaultParams ==
    PostInit([threshold1 |-> 50, threshold2 |-> 150, blur_kernel_size |-> 5,
              aperture_size |-> 3])

\* the images handed to the manager: 1 .. cache_size_limit + 1 have fewer than
\* 1000000 elements and different bytes; the last two have more, and one shape
Images == 1..(cache_size_limit + 3)

IsLarge(img) == img > cache_size_limit + 1

\* the images of the calls made in the model: the one cached first, and those
\* not cached at the start
Requested == {1} \cup {img \in Images : img > cache_size_limit}

\* get_cache_key: hash(image.tobytes()) below 1000000 elements, else
\* hash(str(image.shape)); then hash(str(params.to_dict()))
GetCacheKey(img, p) ==
    [image_hash  |-> IF IsLarge(img) THEN <<"shape", 0>> ELSE <<"bytes", img>>,
     params_hash |-> p]

\* cv2.Canny raises unless apertureSize is odd and between 3 and 7
DetectionFails(img, p) == ~(p.aperture_size \in {3, 5, 7})

\* np.count_nonzero of the edge image computed from an image with given
\* parameters: some function of both
EdgeCount(img, p) == 1 + ((3 * img + p.threshold1 + 2 * p.threshold2 + p.blur_kernel_size) % 7)

CacheKeys(cache) == {cache[i].key : i \in 1..Len(cache)}

CacheIndex(cache, key) == CHOOSE i \in 1..Len(cache) : cache[i].key = key

\* min(self.result_cache.keys(), key=lambda k: self.result_cache[k].timestamp):
\* the first of the entries with the smallest timestamp
OldestIndex(cache) ==
    CHOOSE i \in 1..Len(cache) :
        /\ \A j \in 1..Len(cache) : cache[i].result.timestamp <= cache[j].result.timestamp
        /\ \A j \in 1..(i - 1) : cache[j].result.timestamp > cache[i].result.timestamp

\* _cache_result without the final insertion
CacheResultEvictOnly(cache, key, result) ==
    IF Len(cache) >= cache_size_limit THEN RemoveAt(cache, OldestIndex(cache)) ELSE cache

\* self.result_cache[key] = result
SetItem(cache, key, result) ==
    IF key \in CacheKeys(cache)
    THEN [cache EXCEPT ![CacheIndex(cache, key)].result = result]
    ELSE Append(cache, [key |-> key, result |-> result])

\* _cache_result(key, result)
CacheResult(cache, key, result) ==
    SetItem(IF Len(cache) >= cache_size_limit
            THEN RemoveAt(cache, OldestIndex(cache))
            ELSE cache,
            key, result)

\* self.result_cache.clear() forgotten
ClearedCacheKept(cache) == cache

\* self.result_cache.clear()
ClearedCache(cache) == <<>>

\* a successful EdgeDetectionResult
Result(img, p, t) ==
    [image |-> img, edge_count |-> EdgeCount(img, p), params_used |-> p,
     timestamp |-> t, failed |-> FALSE]

\* the result returned after an exception: a blank edge image, no params_used
BlankResult(img, t) ==
    [image |-> img, edge_count |-> 0, params_used |-> DefaultParams,
     timestamp |-> t, failed |-> TRUE]

\* a cache filled by n calls on the images 1..n with the default parameters
FilledCache(n) ==
    [i \in 1..n |-> [key    |-> GetCacheKey(i, DefaultParams),
                     result |-> Result(i, DefaultParams, i)]]

\* last_call before any call; params are the parameters in force after the call
NoCall == [op |-> "none", image |-> 0, params |-> DefaultParams, hit |-> FALSE,
           failed |-> FALSE, edge_count |-> 0, threshold1_changed |-> FALSE]

\* EdgeDetectionManager.__init__, followed by n calls of detect_edges_sync on the
\* images 1..n
EdgeAfter(n) ==
    /\ params = DefaultParams
    /\ result_cache = FilledCache(n)
    /\ statistics = [total_processed |-> n, cache_hits |-> 0, cache_misses |-> n]
    /\ clock = n
    /\ last_call = NoCall
    /\ calls = 0

\* EdgeDetectionManager.__init__
EdgeInit == EdgeAfter(0)

\* detect_edges_sync(image), called by one thread at a time
DetectEdgesSync ==
    \E img \in Requested :
        LET cache_key == GetCacheKey(img, params)
            \* time.time(): later than at the previous call
            t         == clock + 1
        IN  /\ calls < MaxCalls
            /\ calls' = calls + 1
            /\ clock' = t
            /\ UNCHANGED params
            /\ UNCHANGED notEdge
            /\ IF cache_key \in CacheKeys(result_cache)
               THEN LET i == CacheIndex(result_cache, cache_key)
                    IN  /\ statistics' = [statistics EXCEPT !.cache_hits = @ + 1]
                        /\ result_cache' = [result_cache EXCEPT ![i].result.timestamp = t]
                        /\ last_call' = [op |-> "detect", image |-> img, params |-> params,
                                         hit |-> TRUE, failed |-> FALSE,
                                         edge_count |-> result_cache[i].result.edge_count,
                                         threshold1_changed |-> FALSE]
               ELSE IF DetectionFails(img, params)
               THEN /\ statistics' = [statistics EXCEPT !.cache_misses = @ + 1]
                    /\ UNCHANGED result_cache
                    /\ last_call' = [op |-> "detect", image |-> img, params |-> params,
                                     hit |-> FALSE, failed |-> TRUE,
                                     edge_count |-> BlankResult(img, t).edge_count,
                                     threshold1_changed |-> FALSE]
               ELSE /\ statistics' = [statistics EXCEPT !.cache_misses = @ + 1,
                                                        !.total_processed = @ + 1]
                    /\ result_cache' = CacheResult(result_cache, cache_key,
                                                   Result(img, params, t))
                    /\ last_call' = [op |-> "detect", image |-> img, params |-> params,
                                     hit |-> FALSE, failed |-> FALSE,
                                     edge_count |-> Result(img, params, t).edge_count,
                                     threshold1_changed |-> FALSE]

\* set_params(params), with params constructed by the caller
SetParams ==
    \E args \in ParamsArgs :
        /\ calls < MaxCalls
        /\ calls' = calls + 1
        /\ params' = PostInit(args)
        /\ result_cache' = ClearedCache(result_cache)
        /\ last_call' = [NoCall EXCEPT
                            !.op = "set_params", !.params = params',
                            !.threshold1_changed = (params'.threshold1 # params.threshold1)]
        /\ UNCHANGED <<statistics, clock>>
        /\ UNCHANGED notEdge

\* update_params(**kwargs): the fields named are set, the others kept
UpdateParams ==
    \E given \in SUBSET ParamFields, args \in ParamsArgs :
        /\ calls < MaxCalls
        /\ calls' = calls + 1
        /\ params' = PostInit([f \in ParamFields |->
                                  IF f \in given THEN args[f] ELSE params[f]])
        /\ result_cache' = ClearedCache(result_cache)
        /\ last_call' = [NoCall EXCEPT
                            !.op = "update_params", !.params = params',
                            !.threshold1_changed = (params'.threshold1 # params.threshold1)]
        /\ UNCHANGED <<statistics, clock>>
        /\ UNCHANGED notEdge

EdgeNext == DetectEdgesSync \/ SetParams \/ UpdateParams

----------------------------------------------------------------------------
(* EdgeDetectionManager: detect_edges_sync run by the two worker threads of   *)
(* its ProcessingQueue. The manager has no lock: a thread switch may happen   *)
(* between any two statements, so that each statement is a step.              *)

\* image=None as the argument of detect_edges_sync
NoneImage == 0

\* outcome is how the worker's last call ended: "result" (a cached or computed
\* result returned), "blank" (the result of the except branch returned), "raised"
\* (an exception left detect_edges_sync), "none" before the first call ends
\* params_used are the parameters read from self.params for cv2.Canny
NoLocal == [image |-> NoneImage, cache_key |-> GetCacheKey(1, DefaultParams),
            timestamp |-> 0, oldest_key |-> GetCacheKey(1, DefaultParams),
            params_used |-> DefaultParams, outcome |-> "none"]

\* the call of worker w ends: its locals are dropped
Ended(w, outcome) == [t_local EXCEPT ![w] = [NoLocal EXCEPT !.outcome = outcome]]

\* no worker is inside detect_edges_sync
ThreadInit ==
    /\ t_pc = [w \in Workers |-> "idle"]
    /\ t_local = [w \in Workers |-> NoLocal]

\* a worker runs a task that calls detect_edges_sync(image): cache_key is
\* computed, outside the try statement; None has no tobytes
ThreadCall(w) ==
    \E img \in Requested \cup {NoneImage} :
        /\ t_pc[w] = "idle"
        /\ calls < MaxCalls
        /\ calls' = calls + 1
        /\ IF img = NoneImage
           THEN /\ t_local' = Ended(w, "raised")
                /\ UNCHANGED t_pc
           ELSE /\ t_local' = [t_local EXCEPT ![w] = [NoLocal EXCEPT
                                   !.image = img, !.cache_key = GetCacheKey(img, params)]]
                /\ t_pc' = [t_pc EXCEPT ![w] = "lookup"]
        /\ UNCHANGED <<result_cache, statistics, clock>>
        /\ UNCHANGED notThreads

\* if cache_key in self.result_cache, and the counter of the branch taken
ThreadLookup(w) ==
    /\ t_pc[w] = "lookup"
    /\ IF t_local[w].cache_key \in CacheKeys(result_cache)
       THEN /\ statistics' = [statistics EXCEPT !.cache_hits = @ + 1]
            /\ t_pc' = [t_pc EXCEPT ![w] = "hit"]
       ELSE /\ statistics' = [statistics EXCEPT !.cache_misses = @ + 1]
            /\ t_pc' = [t_pc EXCEPT ![w] = "detect"]
    /\ UNCHANGED <<result_cache, clock, calls, t_local>>
    /\ UNCHANGED notThreads

\* cached_result = self.result_cache[cache_key] and its new timestamp, outside
\* the try statement; a KeyError if the entry has been evicted since the lookup
ThreadHit(w) ==
    /\ t_pc[w] = "hit"
    /\ IF t_local[w].cache_key \in CacheKeys(result_cache)
       THEN /\ clock' = clock + 1
            /\ result_cache' =
                  [result_cache EXCEPT
                      ![CacheIndex(result_cache, t_local[w].cache_key)].result.timestamp =
                          clock + 1]
            /\ t_local' = Ended(w, "result")
       ELSE /\ UNCHANGED <<clock, result_cache>>
            /\ t_local' = Ended(w, "raised")
    /\ t_pc' = [t_pc EXCEPT ![w] = "idle"]
    /\ UNCHANGED <<statistics, calls>>
    /\ UNCHANGED notThreads

\* the detection and the result: an exception ends the call, else total_processed
\* is counted and _cache_result entered
ThreadDetect(w) ==
    /\ t_pc[w] = "detect"
    /\ IF DetectionFails(t_local[w].image, params)
       THEN /\ t_pc' = [t_pc EXCEPT ![w] = "idle"]
            /\ UNCHANGED <<statistics, clock>>
            /\ t_local' = Ended(w, "blank")
       ELSE /\ t_pc' = [t_pc EXCEPT ![w] = "cache_check"]
            /\ clock' = clock + 1
            /\ t_local' = [t_local EXCEPT ![w].timestamp = clock + 1,
                                          ![w].params_used = params]
            /\ statistics' = [statistics EXCEPT !.total_processed = @ + 1]
    /\ UNCHANGED <<result_cache, calls>>
    /\ UNCHANGED notThreads

\* _cache_result: if len(self.result_cache) >= self.cache_size_limit
ThreadCacheCheck(w) ==
    /\ t_pc[w] = "cache_check"
    /\ t_pc' = [t_pc EXCEPT ![w] =
                  IF Len(result_cache) >= cache_size_limit THEN "oldest" ELSE "insert"]
    /\ UNCHANGED <<result_cache, statistics, clock, calls, t_local>>
    /\ UNCHANGED notThreads

\* _cache_result: oldest_key = min(...); a ValueError on an empty dict ends the call
ThreadOldest(w) ==
    /\ t_pc[w] = "oldest"
    /\ IF result_cache = <<>>
       THEN /\ t_pc' = [t_pc EXCEPT ![w] = "idle"]
            /\ t_local' = Ended(w, "blank")
       ELSE /\ t_pc' = [t_pc EXCEPT ![w] = "delete"]
            /\ t_local' = [t_local EXCEPT ![w].oldest_key =
                              result_cache[OldestIndex(result_cache)].key]
    /\ UNCHANGED <<result_cache, statistics, clock, calls>>
    /\ UNCHANGED notThreads

\* _cache_result: del self.result_cache[oldest_key]; a KeyError, caught by
\* detect_edges_sync, if the other thread has deleted that entry
ThreadDelete(w) ==
    /\ t_pc[w] = "delete"
    /\ IF t_local[w].oldest_key \in CacheKeys(result_cache)
       THEN /\ result_cache' =
                  RemoveAt(result_cache, CacheIndex(result_cache, t_local[w].oldest_key))
            /\ t_pc' = [t_pc EXCEPT ![w] = "insert"]
            /\ UNCHANGED t_local
       ELSE /\ UNCHANGED result_cache
            /\ t_pc' = [t_pc EXCEPT ![w] = "idle"]
            /\ t_local' = Ended(w, "blank")
    /\ UNCHANGED <<statistics, clock, calls>>
    /\ UNCHANGED notThreads

\* _cache_result: self.result_cache[key] = result; the call returns
ThreadInsert(w) ==
    /\ t_pc[w] = "insert"
    /\ result_cache' = SetItem(result_cache, t_local[w].cache_key,
                               Result(t_local[w].image, t_local[w].params_used,
                                      t_local[w].timestamp))
    /\ t_pc' = [t_pc EXCEPT ![w] = "idle"]
    /\ t_local' = Ended(w, "result")
    /\ UNCHANGED <<statistics, clock, calls>>
    /\ UNCHANGED notThreads

ThreadsNext ==
    \E w \in Workers :
        \/ ThreadCall(w)
        \/ ThreadLookup(w)
        \/ ThreadHit(w)
        \/ ThreadDetect(w)
        \/ ThreadCacheCheck(w)
        \/ ThreadOldest(w)
        \/ ThreadDelete(w)
        \/ ThreadInsert(w)

\* the EdgeDetectionParams objects handed to set_params while the workers run:
\* they differ in threshold1
CallerParamsArgs ==
    {args \in ParamsArgs : /\ args.threshold2 = 300
                           /\ args.blur_kernel_size = 4
                           /\ args.aperture_size = 3
                           /\ args.threshold1 \in {0, 100}}

\* set_params(params), called by the thread that owns the manager while the
\* workers run: self.params is replaced and the cache cleared
SetParamsByCaller ==
    \E args \in CallerParamsArgs :
        /\ calls < MaxCalls
        /\ calls' = calls + 1
        /\ params' = PostInit(args)
        /\ result_cache' = ClearedCache(result_cache)
        /\ last_call' = [NoCall EXCEPT
                            !.op = "set_params", !.params = params',
                            !.threshold1_changed = (params'.threshold1 # params.threshold1)]
        /\ UNCHANGED <<statistics, clock, t_pc, t_local>>
        /\ UNCHANGED <<pyrVars, queueVars, filterVars, calledVars, shutdownVars>>

ThreadsAndCallerNext == ThreadsNext \/ SetParamsByCaller

----------------------------------------------------------------------------
(* CircleDetector.filter_circles (src/core/circle_detection.py)               *)
(* A confidence is a number of tenths.                                        *)

\* filter_circles' default arguments
DefaultMinConfidence == 3
DefaultMaxCircles == 10

\* the Circle dataclass: the fields that filter_circles reads
Circle == [x : {c[1] : c \in Centres}, y : {c[2] : c \in Centres}, radius : Radii,
           confidence : Confidences]

CircleInputs == {c \in Circle : <<c.x, c.y>> \in Centres}

\* distance < min_radius * overlap_threshold, with overlap_threshold = 0.7: both
\* sides squared and multiplied by 100 (a negative right-hand side is never above
\* a distance)
Overlapping(circle1, circle2) ==
    LET distance2  == (circle1.x - circle2.x) * (circle1.x - circle2.x)
                        + (circle1.y - circle2.y) * (circle1.y - circle2.y)
        min_radius == Min(circle1.radius, circle2.radius)
    IN  min_radius > 0 /\ 100 * distance2 < 49 * min_radius * min_radius

\* the inner loop compared with the last accepted circle only
OverlapsLastAccepted(result, circle1) ==
    result # <<>> /\ Overlapping(circle1, result[Len(result)])

\* the inner loop of _remove_overlapping_circles: is_overlapping
OverlapsAccepted(result, circle1) ==
    \E j \in 1..Len(result) : Overlapping(circle1, result[j])

\* the outer loop of _remove_overlapping_circles, from circle i on
RECURSIVE RemoveLoop(_, _, _)
RemoveLoop(cs, i, result) ==
    IF i > Len(cs) THEN result
    ELSE RemoveLoop(cs, i + 1,
                    IF OverlapsAccepted(result, cs[i]) THEN result
                    ELSE Append(result, cs[i]))

\* _remove_overlapping_circles comparing each circle with every circle before it
\* in the list, kept or not
RemoveOverlappingAnyEarlier(cs) ==
    LET kept == {i \in 1..Len(cs) : \A j \in 1..(i - 1) : ~Overlapping(cs[i], cs[j])}
        F[n \in 0..Len(cs)] ==
            IF n = 0 THEN <<>>
            ELSE IF n \in kept THEN Append(F[n - 1], cs[n]) ELSE F[n - 1]
    IN  F[Len(cs)]

\* _remove_overlapping_circles(circles)
RemoveOverlappingCircles(cs) ==
    IF Len(cs) <= 1 THEN cs ELSE RemoveLoop(cs, 1, <<>>)

\* [c for c in circles if c.confidence >= min_confidence]
ConfidentCircles(cs, min_confidence) ==
    SelectSeq(cs, LAMBDA c : c.confidence >= min_confidence)

\* the slice kept whole
LimitIgnored(cs, max_circles) == cs

\* filtered[:max_circles], for max_circles >= 0
Limit(cs, max_circles) == SubSeq(cs, 1, Min(Len(cs), max_circles))

\* filter_circles(circles, min_confidence, max_circles)
FilterCirclesOf(cs, min_confidence, max_circles) ==
    RemoveOverlappingCircles(Limit(ConfidentCircles(cs, min_confidence), max_circles))

NoFilterCall == [done |-> FALSE, min_confidence |-> DefaultMinConfidence,
                 max_circles |-> DefaultMaxCircles]

FilterInit ==
    /\ circles = <<>>
    /\ filter_call = NoFilterCall
    /\ filtered = <<>>

\* the caller's list grows by one circle; what was returned for the shorter list
\* is dropped
AddCircle ==
    \E c \in CircleInputs :
        /\ Len(circles) < MaxLen
        /\ circles' = Append(circles, c)
        /\ filter_call' = NoFilterCall
        /\ filtered' = <<>>
        /\ UNCHANGED notFilter

\* filter_circles is called on the caller's list
FilterCircles ==
    \E min_confidence \in MinConfidences, max_circles \in MaxCirclesArgs :
        /\ filter_call' = [done |-> TRUE, min_confidence |-> min_confidence,
                           max_circles |-> max_circles]
        /\ filtered' = FilterCirclesOf(circles, min_confidence, max_circles)
        /\ UNCHANGED circles
        /\ UNCHANGED notFilter

FilterNext == AddCircle \/ FilterCircles

----------------------------------------------------------------------------
(* CircleCapture (src/core/circle_capture.py)                                 *)
(* An image is its shape [w, h]; a region is the half-open ranges of columns  *)
(* x1..x2-1 and rows y1..y2-1 that the numpy slice selects.                   *)

\* a[start:stop] on an axis of length n, start >= 0: a negative stop counts from
\* the end of the axis; the range selected is lo..hi-1, empty if hi <= lo
SliceStop(stop, n) == IF stop < 0 THEN Max(0, stop + n) ELSE Min(stop, n)

SliceStart(start, n) == Min(start, n)

\* the stop of a slice taken as a position from the start of the axis, whatever
\* its sign
SliceStopClamped(stop, n) == Max(0, Min(stop, n))

NoRegion == [status |-> "null", x1 |-> 0, x2 |-> 0, y1 |-> 0, y2 |-> 0]

\* extract_circle_region(image, circle, padding): both values of
\* transparent_background return an image of the shape of region
ExtractCircleRegion(image, circle, padding) ==
    IF image.w * image.h = 0 THEN NoRegion
    ELSE
    LET x  == circle.x
        y  == circle.y
        r  == circle.radius
        x1 == Max(0, x - r - padding)
        y1 == Max(0, y - r - padding)
        x2 == Min(image.w, x + r + padding + 1)
        y2 == Min(image.h, y + r + padding + 1)
        c1 == SliceStart(x1, image.w)
        c2 == SliceStop(x2, image.w)
        r1 == SliceStart(y1, image.h)
        r2 == SliceStop(y2, image.h)
    IN  IF c2 <= c1 \/ r2 <= r1 THEN NoRegion
        \* cv2.circle asserts radius >= 0
        ELSE IF r < 0 THEN [NoRegion EXCEPT !.status = "raises"]
        ELSE [status |-> "region", x1 |-> c1, x2 |-> c2, y1 |-> r1, y2 |-> r2]

NoExtractCall == [done |-> FALSE, image |-> [w |-> 0, h |-> 0],
                  circle |-> [x |-> 0, y |-> 0, radius |-> 0], padding |-> 0,
                  region |-> NoRegion]

\* the circles handed to capture_circles with a 4 x 3 image and its padding of
\* 10: one inside the image, one far to the left of it, one to the left of it by
\* less than the image's width, one of negative radius
CapturedImage == [w |-> 4, h |-> 3]
CapturedCircles == {[x |-> 1, y |-> 1, radius |-> 1], [x |-> -20, y |-> 1, radius |-> 1],
                    [x |-> -13, y |-> 1, radius |-> 1], [x |-> 1, y |-> 1, radius |-> -1]}

RECURSIVE ListsOf(_, _)
ListsOf(S, n) ==
    IF n = 0 THEN {<<>>}
    ELSE LET shorter == ListsOf(S, n - 1)
         IN  shorter \cup {Append(l, e) : l \in {m \in shorter : Len(m) = n - 1}, e \in S}

\* padding=10 of capture_circles
CapturePadding == 10

\* the loop of capture_circles left at the first exception
RECURSIVE CaptureLoopAborting(_, _, _, _, _, _)
CaptureLoopAborting(image, cs, i, save_individual, save_fails, acc) ==
    IF i > Len(cs) THEN acc
    ELSE
    LET region == ExtractCircleRegion(image, cs[i], CapturePadding)
        seen   == [acc EXCEPT !.processed = Append(@, i)]
    IN  IF region.status = "raises" THEN seen
        ELSE IF region.status = "null"
        THEN CaptureLoopAborting(image, cs, i + 1, save_individual, save_fails, seen)
        ELSE LET counted == [seen EXCEPT !.successful_captures = @ + 1]
             IN  IF ~save_individual
                 THEN CaptureLoopAborting(image, cs, i + 1, save_individual, save_fails,
                                          counted)
                 ELSE IF i \in save_fails THEN counted
                 ELSE CaptureLoopAborting(image, cs, i + 1, save_individual, save_fails,
                          [counted EXCEPT !.individual_files = Append(@, i)])

\* the loop of capture_circles from circle i on: an exception raised by the
\* extraction or by the saving of a circle ends this circle's iteration only
RECURSIVE CaptureLoop(_, _, _, _, _, _)
CaptureLoop(image, cs, i, save_individual, save_fails, acc) ==
    IF i > Len(cs) THEN acc
    ELSE
    LET region == ExtractCircleRegion(image, cs[i], CapturePadding)
        seen   == [acc EXCEPT !.processed = Append(@, i)]
    IN  IF region.status # "region"
        THEN CaptureLoop(image, cs, i + 1, save_individual, save_fails, seen)
        ELSE LET counted == [seen EXCEPT !.successful_captures = @ + 1]
             IN  IF ~save_individual \/ i \in save_fails
                 THEN CaptureLoop(image, cs, i + 1, save_individual, save_fails, counted)
                 ELSE CaptureLoop(image, cs, i + 1, save_individual, save_fails,
                          [counted EXCEPT !.individual_files = Append(@, i)])

NoRecord == [written |-> FALSE, total_detected |-> 0, successful_captures |-> 0,
             circles |-> <<>>, individual_files |-> <<>>]

\* _save_detection_data(circles, results, timestamp): the record written, one
\* entry per circle; nothing when writing the file raises
SaveDetectionData(cs, results, write_ok) ==
    IF write_ok
    THEN [written |-> TRUE, total_detected |-> Len(cs),
          successful_captures |-> results.successful_captures,
          circles |-> [i \in 1..Len(cs) |-> [index |-> i, circle |-> cs[i]]],
          individual_files |-> results.individual_files]
    ELSE NoRecord

NoResults == [status |-> "none", total_circles |-> 0, successful_captures |-> 0,
              individual_files |-> <<>>, processed |-> <<>>,
              detection_data_file |-> FALSE]

\* capture_circles(image, circles, save_individual): the results returned and
\* the record written (save_combined adds a file and changes neither)
CaptureCirclesOf(image, cs, save_individual, save_fails, write_ok) ==
    IF cs = <<>>
    THEN [results |-> [NoResults EXCEPT !.status = "error"], record |-> NoRecord]
    ELSE LET looped == CaptureLoop(image, cs, 1, save_individual, save_fails,
                                   [NoResults EXCEPT !.status = "ok",
                                                     !.total_circles = Len(cs)])
             record == SaveDetectionData(cs, looped, write_ok)
         IN  [results |-> [looped EXCEPT !.detection_data_file = record.written],
              record  |-> record]

NoCaptureCall == [done |-> FALSE, circles |-> <<>>, save_individual |-> FALSE,
                  save_fails |-> {}, write_ok |-> FALSE, results |-> NoResults,
                  record |-> NoRecord]

CaptureInit ==
    /\ extract_call = NoExtractCall
    /\ capture_call = NoCaptureCall

\* extract_circle_region is called, once in a behaviour
ExtractCircleRegionCall ==
    \E shape \in ImageShapes, x \in ExtractXs, y \in ExtractYs, r \in ExtractRadii,
       padding \in Paddings :
        LET image  == [w |-> shape[1], h |-> shape[2]]
            circle == [x |-> x, y |-> y, radius |-> r]
        IN  /\ ~extract_call.done
            /\ extract_call' = [done |-> TRUE, image |-> image, circle |-> circle,
                                padding |-> padding,
                                region |-> ExtractCircleRegion(image, circle, padding)]
            /\ UNCHANGED capture_call
            /\ UNCHANGED notCapture

\* capture_circles is called, once in a behaviour; save_fails are the circles
\* whose PNG cannot be saved, write_ok tells whether the JSON file can be written
CaptureCircles ==
    \E cs \in ListsOf(CapturedCircles, MaxCaptured), save_individual \in BOOLEAN,
       write_ok \in BOOLEAN :
        \E save_fails \in SUBSET (1..Len(cs)) :
            LET out == CaptureCirclesOf(CapturedImage, cs, save_individual, save_fails,
                                        write_ok)
            IN  /\ ~capture_call.done
                /\ capture_call' = [done |-> TRUE, circles |-> cs,
                                    save_individual |-> save_individual,
                                    save_fails |-> save_fails, write_ok |-> write_ok,
                                    results |-> out.results, record |-> out.record]
                /\ UNCHANGED extract_call
                /\ UNCHANGED notCapture

ExtractNext == ExtractCircleRegionCall

----------------------------------------------------------------------------
(* CircleDetector.calculate_confidence (src/core/circle_detection.py)         *)
(* A score is a number of 1/ScoreOne: every quotient of the code, over the    *)
(* ring's pixels (4 or 12 of them), the 36 samples, 255 and 10, is then an    *)
(* integer.                                                                   *)

num_samples == 36

ScoreOne == 12 * num_samples * 255 * 10

\* min(1.0, edge_ratio * 3) left unclamped
EdgeStrengthUnclamped(circle_pixels, edge_pixels) ==
    IF circle_pixels = 0 THEN 0
    ELSE 3 * edge_pixels * (ScoreOne \div circle_pixels)

\* _calculate_edge_strength: the share of the ring's pixels that are edge pixels,
\* times 3, at most 1.0
EdgeStrength(circle_pixels, edge_pixels) ==
    IF circle_pixels = 0 THEN 0
    ELSE Min(ScoreOne, 3 * edge_pixels * (ScoreOne \div circle_pixels))

\* _calculate_completeness: complete_points / num_samples
Completeness(complete_points) == complete_points * (ScoreOne \div num_samples)

\* _calculate_geometry_consistency: 1.0 - min(1.0, np.var(center_region) / 255.0)
GeometryConsistency(variance) == ScoreOne - Min(ScoreOne, variance * (ScoreOne \div 255))

\* the boundary check of calculate_confidence
OutOfImage(w, h, x, y, radius) ==
    x - radius < 0 \/ x + radius >= w \/ y - radius < 0 \/ y + radius >= h

NoScores == [edge_score |-> 0, completeness_score |-> 0, geometry_score |-> 0,
             confidence |-> 0]

\* calculate_confidence(image, x, y, radius), the image giving the measures m
CalculateConfidence(w, h, x, y, radius, m) ==
    IF OutOfImage(w, h, x, y, radius) THEN NoScores
    ELSE LET edge_score         == EdgeStrength(m.circle_pixels, m.edge_pixels)
             completeness_score == Completeness(m.complete_points)
             geometry_score     == GeometryConsistency(m.variance)
             confidence         == (edge_score * 4 + completeness_score * 4
                                    + geometry_score * 2) \div 10
         IN  [edge_score |-> edge_score, completeness_score |-> completeness_score,
              geometry_score |-> geometry_score,
              confidence |-> Min(ScoreOne, Max(0, confidence))]

NoMeasures == [circle_pixels |-> 0, edge_pixels |-> 0, complete_points |-> 0,
               variance |-> 0]

NoConfidenceCall == [done |-> FALSE, w |-> 0, h |-> 0, x |-> 0, y |-> 0, radius |-> 0,
                     measures |-> NoMeasures, scores |-> NoScores]

\* DetectionParams(): param1, param2, and min_dist for the fields that
\* auto_adjust_params does not touch
DefaultDetectionParams == [param1 |-> 50, param2 |-> 30, min_dist |-> 50]

\* auto_adjust_params with new_params = self.params in place of the copy
AutoAdjustParamsAliased(self_params, mean_intensity, contrast) ==
    LET param1 == IF mean_intensity < 100 THEN Max(30, self_params.param1 - 20)
                  ELSE IF mean_intensity > 180 THEN Min(100, self_params.param1 + 20)
                  ELSE self_params.param1
        param2 == IF contrast < 30 THEN Max(20, self_params.param2 - 10)
                  ELSE IF contrast > 80 THEN Min(50, self_params.param2 + 10)
                  ELSE self_params.param2
        new    == [self_params EXCEPT !.param1 = param1, !.param2 = param2]
    IN  [returned |-> new, self_params |-> new]

\* auto_adjust_params(image), the preprocessed image having the given mean and
\* standard deviation: the params returned and self.params after the call
AutoAdjustParams(self_params, mean_intensity, contrast) ==
    LET \* new_params = DetectionParams(); new_params.__dict__.update(...)
        copied == [f \in DOMAIN DefaultDetectionParams |-> self_params[f]]
        param1 == IF mean_intensity < 100 THEN Max(30, self_params.param1 - 20)
                  ELSE IF mean_intensity > 180 THEN Min(100, self_params.param1 + 20)
                  ELSE copied.param1
        param2 == IF contrast < 30 THEN Max(20, self_params.param2 - 10)
                  ELSE IF contrast > 80 THEN Min(50, self_params.param2 + 10)
                  ELSE copied.param2
    IN  [returned |-> [copied EXCEPT !.param1 = param1, !.param2 = param2],
         self_params |-> self_params]

NoAdjustCall == [done |-> FALSE, mean_intensity |-> 0, contrast |-> 0,
                 before |-> DefaultDetectionParams, returned |-> DefaultDetectionParams]

DetectorInit ==
    /\ confidence_call = NoConfidenceCall
    /\ detector_params = DefaultDetectionParams
    /\ adjust_call = NoAdjustCall

\* CircleDetector.set_params(params)
SetDetectorParams ==
    \E param1 \in Param1s, param2 \in Param2s :
        /\ ~adjust_call.done
        /\ detector_params' = [DefaultDetectionParams EXCEPT !.param1 = param1,
                                                             !.param2 = param2]
        /\ UNCHANGED <<confidence_call, adjust_call>>
        /\ UNCHANGED notDetector

\* auto_adjust_params is called, once in a behaviour
AutoAdjustParamsCall ==
    \E mean_intensity \in MeanIntensities, contrast \in Contrasts :
        LET out == AutoAdjustParams(detector_params, mean_intensity, contrast)
        IN  /\ ~adjust_call.done
            /\ adjust_call' = [done |-> TRUE, mean_intensity |-> mean_intensity,
                               contrast |-> contrast, before |-> detector_params,
                               returned |-> out.returned]
            /\ detector_params' = out.self_params
            /\ UNCHANGED confidence_call
            /\ UNCHANGED notDetector

AdjustNext == SetDetectorParams \/ AutoAdjustParamsCall

\* calculate_confidence is called, once in a behaviour; an image is measured only
\* for a circle inside it
CalculateConfidenceCall ==
    \E x \in ConfidenceXs, y \in ConfidenceYs, radius \in ConfidenceRadii,
       circle_pixels \in RingPixels, complete_points \in SampledPoints,
       variance \in CentreVariances :
        \E edge_pixels \in 0..circle_pixels :
            LET w == ConfidenceSide
                h == ConfidenceSide
                m == IF OutOfImage(w, h, x, y, radius) THEN NoMeasures
                     ELSE [circle_pixels |-> circle_pixels, edge_pixels |-> edge_pixels,
                           complete_points |-> complete_points, variance |-> variance]
            IN  /\ ~confidence_call.done
                /\ confidence_call' =
                      [done |-> TRUE, w |-> w, h |-> h, x |-> x, y |-> y,
                       radius |-> radius, measures |-> m,
                       scores |-> CalculateConfidence(w, h, x, y, radius, m)]
                /\ UNCHANGED <<detector_params, adjust_call>>
                /\ UNCHANGED notDetector

ConfidenceNext == CalculateConfidenceCall

----------------------------------------------------------------------------
(* ModernHotkeyManager.validate_hotkey_with_details (src/core/hotkey.py)      *)
(* A string is a sequence of pieces: lower-case key names, "+" and " ". Two   *)
(* key names that follow each other without separator make one longer name.   *)

valid_modifiers == {"ctrl", "shift", "alt", "win", "cmd"}

\* str.strip(): leading and trailing spaces removed
RECURSIVE LStrip(_)
LStrip(str) == IF str # <<>> /\ Head(str) = " " THEN LStrip(Tail(str)) ELSE str

RECURSIVE RStrip(_)
RStrip(str) ==
    IF str # <<>> /\ str[Len(str)] = " " THEN RStrip(SubSeq(str, 1, Len(str) - 1)) ELSE str

Strip(str) == RStrip(LStrip(str))

\* str.split('+'): the parts between the separators, empty ones included
RECURSIVE SplitPlus(_, _)
SplitPlus(str, part) ==
    IF str = <<>> THEN <<part>>
    ELSE IF Head(str) = "+" THEN <<part>> \o SplitPlus(Tail(str), <<>>)
    ELSE SplitPlus(Tail(str), Append(part, Head(str)))

\* part in valid_modifiers
IsModifier(part) == Len(part) = 1 /\ part[1] \in valid_modifiers

HasDuplicates(parts) ==
    \E i, j \in 1..Len(parts) : i < j /\ parts[i] = parts[j]

\* validate_hotkey_with_details(hotkey_str)[0]; convert_hotkey_format raises on
\* no string
ValidateHotkey(hotkey_str) ==
    IF Strip(hotkey_str) = <<>> THEN FALSE
    ELSE
    LET stripped   == Strip(hotkey_str)
        split      == SplitPlus(stripped, <<>>)
        parts      == [i \in 1..Len(split) |-> Strip(split[i])]
        modifiers  == SelectSeq(parts, IsModifier)
        main_keys  == SelectSeq(parts, LAMBDA part : ~IsModifier(part))
    IN  IF ~(\E i \in 1..Len(stripped) : stripped[i] = "+") THEN FALSE
        ELSE IF modifiers = <<>> THEN FALSE
        ELSE IF main_keys = <<>> THEN FALSE
        ELSE IF Len(main_keys) > 1 THEN FALSE
        ELSE IF HasDuplicates(modifiers) THEN FALSE
        ELSE TRUE

NoHotkeyCall == [done |-> FALSE, hotkey_str |-> <<>>, valid |-> FALSE]

HotkeyInit == hotkey_call = NoHotkeyCall

\* validate_hotkey_with_details is called, once in a behaviour
ValidateHotkeyCall ==
    \E hotkey_str \in ListsOf(Pieces, MaxPieces) :
        /\ ~hotkey_call.done
        /\ hotkey_call' = [done |-> TRUE, hotkey_str |-> hotkey_str,
                           valid |-> ValidateHotkey(hotkey_str)]
        /\ UNCHANGED notHotkey

HotkeyNext == ValidateHotkeyCall

CaptureNext == CaptureCircles

----------------------------------------------------------------------------
(* ConfigManager (src/core/config.py)                                         *)
(* The configuration is a dict of sections, each a nested dict. A dict is an  *)
(* object: dict.copy() copies the outer dict only, so that the copy holds the *)
(* very nested dicts of the original. The value "default" of a key stands for *)
(* the value that __init__ writes for it.                                     *)

\* two of the sections of the default configuration, and two keys of each
ConfigSections == {"screenshot", "general"}

SectionKeys(s) ==
    IF s = "screenshot" THEN {"save_directory", "continuous_interval"}
    ELSE {"save_format", "image_quality"}

\* the values a key can be given
ConfigValues == {"default", "changed"}

\* a key that a configuration file does not have
Absent == "absent"

\* self._default_config as written by __init__
BuiltInConfig == [s \in ConfigSections |-> [k \in SectionKeys(s) |-> "default"]]

\* a section of the copy that is the nested dict of the original
SharedSection(s) == [shared |-> TRUE, items |-> BuiltInConfig[s]]

\* self._default_config.copy()
ShallowCopy(default) == [s \in ConfigSections |-> SharedSection(s)]

\* the contents of a configuration file: for each section whether the file has
\* it, and the value it gives to each key, or Absent
ConfigFiles ==
    {f \in [ConfigSections -> [present : BOOLEAN,
                               items : UNION {[SectionKeys(s) -> ConfigValues \cup {Absent}]
                                                : s \in ConfigSections}]] :
        \A s \in ConfigSections :
            /\ DOMAIN f[s].items = SectionKeys(s)
            /\ ~f[s].present => \A k \in SectionKeys(s) : f[s].items[k] = Absent}

\* _merge_configs(default, loaded): the outer dict is copied; a section of
\* loaded is merged into a new dict, copied from the section of default; a
\* section that loaded does not have stays the nested dict of default
MergeConfigs(default, loaded) ==
    [s \in ConfigSections |->
        IF loaded[s].present
        THEN [shared |-> FALSE,
              items  |-> [k \in SectionKeys(s) |->
                            IF loaded[s].items[k] = Absent THEN default[s][k]
                            ELSE loaded[s].items[k]]]
        ELSE SharedSection(s)]

\* get(key_path) for key_path = s.k
ConfigGet(s, k) == IF config[s].shared THEN default_config[s][k] ELSE config[s].items[k]

\* __init__ where the configuration file does not exist, or cannot be read
ConfigInit ==
    /\ default_config = BuiltInConfig
    /\ config = ShallowCopy(BuiltInConfig)
    /\ config_call = "init"

\* __init__: load_config finds no file, or merges the file it finds
ConfigConstructed ==
    /\ default_config = BuiltInConfig
    /\ \/ config = ShallowCopy(BuiltInConfig)
       \/ \E loaded \in ConfigFiles : config = MergeConfigs(BuiltInConfig, loaded)
    /\ config_call = "init"

\* set(key_path, value) for key_path = s.k: config = self._config[s], then
\* config[k] = value, on whichever dict object self._config[s] is
ConfigSet ==
    \E s \in ConfigSections :
        \E k \in SectionKeys(s), value \in ConfigValues :
            /\ IF config[s].shared
               THEN /\ default_config' = [default_config EXCEPT ![s][k] = value]
                    /\ UNCHANGED config
               ELSE /\ config' = [config EXCEPT ![s].items[k] = value]
                    /\ UNCHANGED default_config
            /\ config_call' = "set"
            /\ UNCHANGED notConfig

\* reset_to_defaults()
ResetToDefaults ==
    /\ config' = ShallowCopy(default_config)
    /\ config_call' = "reset"
    /\ UNCHANGED default_config
    /\ UNCHANGED notConfig

\* import_config(import_path), the file being read
ImportConfig ==
    \E imported \in ConfigFiles :
        /\ config' = MergeConfigs(default_config, imported)
        /\ config_call' = "import"
        /\ UNCHANGED default_config
        /\ UNCHANGED notConfig

ConfigNext == ConfigSet \/ ResetToDefaults \/ ImportConfig

----------------------------------------------------------------------------
(* BatchProcessor (src/core/batch_processor.py)                               *)
(* A batch of MaxItems items has been started by start_batch_processing. Each *)
(* item is processed by a thread of the pool; the monitor thread polls the    *)
(* futures; the user's thread calls pause, resume and cancel.                 *)

Items == 1..MaxItems

\* self.progress.total_files
total_files == MaxItems

\* a count that stops at MaxCallbacks
Counted(n) == IF n < MaxCallbacks THEN n + 1 ELSE n

\* start_batch_processing has returned True: the items are submitted and the
\* monitor thread is about to test its loop condition
BatchInit ==
    /\ progress = [status |-> "running", processed_files |-> 0]
    /\ is_paused = FALSE
    /\ is_cancelled = FALSE
    /\ futures = [i \in Items |-> "pending"]
    /\ item_status = [i \in Items |-> "pending"]
    /\ m_pc = "while"
    /\ m_local = [i |-> 1, completed_count |-> 0, error_count |-> 0]
    /\ callbacks = [item |-> [i \in Items |-> 0], batch |-> 0]
    /\ user_calls = [pause |-> 0, resume |-> 0]

\* a thread of the pool takes item i: process_single_item sets
\* item.status = "processing"
ItemBegin(i) ==
    /\ futures[i] = "pending"
    /\ futures' = [futures EXCEPT ![i] = "running"]
    /\ item_status' = [item_status EXCEPT ![i] = "processing"]
    /\ UNCHANGED <<progress, is_paused, is_cancelled, m_pc, m_local, callbacks, user_calls>>
    /\ UNCHANGED notBatch

\* process_single_item past "while self.is_paused: time.sleep(0.1)": a cancelled
\* batch makes the item an error, else the image is processed and saved, or not
ItemProcess(i) ==
    /\ futures[i] = "running"
    /\ \/ /\ is_cancelled
          /\ item_status' = [item_status EXCEPT ![i] = "error"]
       \/ /\ ~is_cancelled
          /\ ~is_paused
          /\ \E outcome \in {"completed", "error"} :
                item_status' = [item_status EXCEPT ![i] = outcome]
    /\ futures' = [futures EXCEPT ![i] = "done"]
    /\ UNCHANGED <<progress, is_paused, is_cancelled, m_pc, m_local, callbacks, user_calls>>
    /\ UNCHANGED notBatch

\* while self.progress.status == "running": a round starts, or the thread leaves
\* the loop and ends
MonitorWhile ==
    /\ m_pc = "while"
    /\ IF progress.status = "running"
       THEN /\ m_pc' = "for"
            /\ m_local' = [i |-> 1, completed_count |-> 0, error_count |-> 0]
       ELSE /\ m_pc' = "ended"
            /\ UNCHANGED m_local
    /\ UNCHANGED <<progress, is_paused, is_cancelled, futures, item_status, callbacks,
                   user_calls>>
    /\ UNCHANGED notBatch

\* one turn of "for i, future in enumerate(self.futures)": a done future is
\* counted by its item's status and on_item_completed is called; the result()
\* of a cancelled future raises, which counts an error
MonitorFor ==
    /\ m_pc = "for"
    /\ m_local.i <= MaxItems
    /\ LET i == m_local.i
       IN  /\ IF futures[i] = "done"
              THEN /\ m_local' = [m_local EXCEPT
                                     !.i = i + 1,
                                     !.completed_count =
                                         IF item_status[i] = "completed" THEN @ + 1 ELSE @,
                                     !.error_count =
                                         IF item_status[i] = "error" THEN @ + 1 ELSE @]
                   /\ callbacks' = [callbacks EXCEPT !.item[i] = Counted(@)]
              ELSE IF futures[i] = "cancelled"
              THEN /\ m_local' = [m_local EXCEPT !.i = i + 1, !.error_count = @ + 1]
                   /\ UNCHANGED callbacks
              ELSE /\ m_local' = [m_local EXCEPT !.i = i + 1]
                   /\ UNCHANGED callbacks
    /\ UNCHANGED <<progress, is_paused, is_cancelled, futures, item_status, m_pc, user_calls>>
    /\ UNCHANGED notBatch

\* after the for loop: the progress is updated; the batch is completed, or
\* cancelled, or the thread sleeps 0.5 s before the next round
MonitorUpdate ==
    /\ m_pc = "for"
    /\ m_local.i > MaxItems
    /\ LET processed == m_local.completed_count + m_local.error_count
       IN  IF processed >= total_files
           THEN /\ progress' = [status |-> "completed", processed_files |-> processed]
                /\ callbacks' = [callbacks EXCEPT !.batch = Counted(@)]
                /\ m_pc' = "ended"
           ELSE IF is_cancelled
           THEN /\ progress' = [status |-> "cancelled", processed_files |-> processed]
                /\ m_pc' = "ended"
                /\ UNCHANGED callbacks
           ELSE /\ progress' = [progress EXCEPT !.processed_files = processed]
                /\ m_pc' = "while"
                /\ UNCHANGED callbacks
    /\ UNCHANGED <<is_paused, is_cancelled, futures, item_status, m_local, user_calls>>
    /\ UNCHANGED notBatch

MonitorNext == MonitorWhile \/ MonitorFor \/ MonitorUpdate

\* pause_processing()
PauseProcessing ==
    /\ user_calls.pause < MaxPauses
    /\ user_calls' = [user_calls EXCEPT !.pause = @ + 1]
    /\ is_paused' = TRUE
    /\ progress' = [progress EXCEPT !.status = "paused"]
    /\ UNCHANGED <<is_cancelled, futures, item_status, m_pc, m_local, callbacks>>
    /\ UNCHANGED notBatch

\* resume_processing()
ResumeProcessing ==
    /\ user_calls.resume < MaxPauses
    /\ user_calls' = [user_calls EXCEPT !.resume = @ + 1]
    /\ is_paused' = FALSE
    /\ progress' = [progress EXCEPT !.status = "running"]
    /\ UNCHANGED <<is_cancelled, futures, item_status, m_pc, m_local, callbacks>>
    /\ UNCHANGED notBatch

\* cancel_processing(): the futures not yet taken by a thread are cancelled
CancelProcessing ==
    /\ ~is_cancelled
    /\ is_cancelled' = TRUE
    /\ is_paused' = FALSE
    /\ progress' = [progress EXCEPT !.status = "cancelled"]
    /\ futures' = [i \in Items |-> IF futures[i] = "pending" THEN "cancelled" ELSE futures[i]]
    /\ UNCHANGED <<item_status, m_pc, m_local, callbacks, user_calls>>
    /\ UNCHANGED notBatch

BatchNext ==
    \/ \E i \in Items : ItemBegin(i)
    \/ \E i \in Items : ItemProcess(i)
    \/ MonitorNext
    \/ PauseProcessing
    \/ ResumeProcessing
    \/ CancelProcessing

----------------------------------------------------------------------------
(* ScreenshotCapture: continuous capture (src/core/screenshot.py)             *)

\* self.continuous_capture_thread = None
NoThread == 0

LoopThreads == 1..MaxLoops

\* the threads started so far
Started == {t \in LoopThreads : loop_pc[t] # "unborn"}

\* ScreenshotCapture.__init__
ShotInit ==
    /\ is_capturing = FALSE
    /\ capture_thread = NoThread
    /\ loop_pc = [t \in LoopThreads |-> "unborn"]
    /\ caller_pc = "idle"

\* start_continuous_capture(on_capture): False if is_capturing, else a new
\* thread is started on capture_loop
StartContinuousCapture ==
    /\ caller_pc = "idle"
    /\ IF is_capturing
       THEN UNCHANGED <<is_capturing, capture_thread, loop_pc>>
       ELSE \E t \in LoopThreads :
                /\ t = Cardinality(Started) + 1
                /\ is_capturing' = TRUE
                /\ capture_thread' = t
                /\ loop_pc' = [loop_pc EXCEPT ![t] = "while"]
    /\ UNCHANGED caller_pc
    /\ UNCHANGED notShot

\* stop_continuous_capture(): is_capturing = False, then the join if the thread
\* is alive
StopContinuousCapture ==
    /\ caller_pc = "idle"
    /\ is_capturing' = FALSE
    /\ caller_pc' = IF capture_thread # NoThread /\ loop_pc[capture_thread] # "ended"
                    THEN "join" ELSE "idle"
    /\ UNCHANGED <<capture_thread, loop_pc>>
    /\ UNCHANGED notShot

\* join(timeout=1.0) returns: the thread has ended, or the second has passed
\* with the thread still in time.sleep(self.capture_interval)
JoinReturns ==
    /\ caller_pc = "join"
    /\ loop_pc[capture_thread] \in {"ended", "sleep"}
    /\ caller_pc' = "idle"
    /\ UNCHANGED <<is_capturing, capture_thread, loop_pc>>
    /\ UNCHANGED notShot

\* capture_loop: while self.is_capturing
LoopWhile(t) ==
    /\ loop_pc[t] = "while"
    /\ loop_pc' = [loop_pc EXCEPT ![t] = IF is_capturing THEN "capture" ELSE "ended"]
    /\ UNCHANGED <<is_capturing, capture_thread, caller_pc>>
    /\ UNCHANGED notShot

\* capture_loop: self.capture_single() and on_capture(result); an exception of
\* the callback ends the loop
LoopCapture(t) ==
    /\ loop_pc[t] = "capture"
    /\ \E next \in {"sleep", "ended"} : loop_pc' = [loop_pc EXCEPT ![t] = next]
    /\ UNCHANGED <<is_capturing, capture_thread, caller_pc>>
    /\ UNCHANGED notShot

\* capture_loop: time.sleep(self.capture_interval) ends
LoopSleep(t) ==
    /\ loop_pc[t] = "sleep"
    /\ loop_pc' = [loop_pc EXCEPT ![t] = "while"]
    /\ UNCHANGED <<is_capturing, capture_thread, caller_pc>>
    /\ UNCHANGED notShot

ShotNext ==
    \/ StartContinuousCapture
    \/ StopContinuousCapture
    \/ JoinReturns
    \/ \E t \in LoopThreads : LoopWhile(t)
    \/ \E t \in LoopThreads : LoopCapture(t)
    \/ \E t \in LoopThreads : LoopSleep(t)

----------------------------------------------------------------------------
(* Specifications *)

PyramidNext == SetBaseImage \/ GetImageAtZoom \/ SetMemoryLimit \/ Clear

\* a pyramid that is loaded and zoomed, its budget as constructed
ZoomNext == SetBaseImage \/ GetImageAtZoom

\* the manager of a pyramid's or queue's specification is the one just constructed
Init ==
    /\ PyrInit /\ QueueInit /\ EdgeInit /\ ThreadInit /\ FilterInit /\ CaptureInit
    /\ DetectorInit /\ HotkeyInit /\ ConfigInit /\ BatchInit /\ ShotInit

Next == PyramidNext

\* every operation of an ImagePyramid
Spec == Init /\ [][Next]_vars

\* set_base_image and get_image_at_zoom only
SpecZoom == Init /\ [][ZoomNext]_vars

\* the pyramid is not used
InitQueue == Init /\ max_memory = 4000

\* a manager that has cached no result, or is one short of its limit, or at it
InitEdge ==
    /\ PyrInit /\ max_memory = 4000
    /\ QueueInit
    /\ \E n \in {0, cache_size_limit - 1, cache_size_limit} : EdgeAfter(n)
    /\ ThreadInit
    /\ FilterInit
    /\ CaptureInit
    /\ DetectorInit
    /\ HotkeyInit
    /\ ConfigInit
    /\ BatchInit
    /\ ShotInit

\* calls made one after the other on an EdgeDetectionManager
SpecEdge == InitEdge /\ [][EdgeNext]_vars

\* the threads of a ProcessingQueue and a thread calling submit_debounced
SpecQueue == InitQueue /\ [][QueueNext]_vars

\* the same threads, and calls of submit_immediate and shutdown
SpecShutdown == InitQueue /\ [][ShutdownNext]_vars

\* every thread of the queue keeps running, and time keeps passing
SpecShutdownFair ==
    /\ SpecShutdown
    /\ WF_vars(Tick /\ NotInShutdown)
    /\ WF_vars(DebounceWake) /\ WF_vars(DebounceTestPending) /\ WF_vars(DebounceTestTime)
    /\ WF_vars(DebouncePut) /\ WF_vars(DebounceReset)
    /\ WF_vars(SubmitStore) /\ WF_vars(ShutdownPut)
    /\ \A w \in Workers :
           WF_vars(WorkerGet(w)) /\ WF_vars(WorkerGetEmpty(w)) /\ WF_vars(WorkerRun(w))

\* a manager whose cache is one short of its limit, or at it
InitThreads ==
    /\ PyrInit /\ max_memory = 4000
    /\ QueueInit
    /\ \E n \in {cache_size_limit - 1, cache_size_limit} : EdgeAfter(n)
    /\ ThreadInit
    /\ FilterInit
    /\ CaptureInit
    /\ DetectorInit
    /\ HotkeyInit
    /\ ConfigInit
    /\ BatchInit
    /\ ShotInit

\* the two workers of the manager's queue calling detect_edges_sync
SpecThreads == InitThreads /\ [][ThreadsNext]_vars

\* detect_edges_sync run by the two worker threads while the owner of the
\* manager calls set_params
SpecThreadsAndCaller == InitThreads /\ [][ThreadsAndCallerNext]_vars

\* filter_circles called on lists of circles
SpecFilter == InitQueue /\ [][FilterNext]_vars

\* extract_circle_region called on images and circles
SpecExtract == InitQueue /\ [][ExtractNext]_vars

\* capture_circles called on lists of circles
SpecCapture == InitQueue /\ [][CaptureNext]_vars

\* calculate_confidence called on circles in and out of an image
SpecConfidence == InitQueue /\ [][ConfidenceNext]_vars

\* set_params and auto_adjust_params called on a CircleDetector
SpecAdjust == InitQueue /\ [][AdjustNext]_vars

\* validate_hotkey_with_details called on strings
SpecHotkey == InitQueue /\ [][HotkeyNext]_vars

\* a ConfigManager constructed with or without a configuration file
InitConfig ==
    /\ PyrInit /\ max_memory = 4000
    /\ QueueInit /\ EdgeInit /\ ThreadInit /\ FilterInit /\ CaptureInit
    /\ DetectorInit /\ HotkeyInit /\ BatchInit /\ ShotInit
    /\ ConfigConstructed

\* set, reset_to_defaults and import_config called on a ConfigManager
SpecConfig == InitConfig /\ [][ConfigNext]_vars

\* start_continuous_capture and stop_continuous_capture called by one thread,
\* and the capture loop threads
SpecShot == InitQueue /\ [][ShotNext]_vars

\* a batch run: the pool's threads, the monitor thread and the user's calls
SpecBatch == InitQueue /\ [][BatchNext]_vars

\* the same, where the pool's threads and the monitor thread keep running: the
\* user's calls may stop
SpecBatchFair ==
    /\ SpecBatch
    /\ WF_vars(MonitorNext)
    /\ \A i \in Items : WF_vars(ItemBegin(i)) /\ WF_vars(ItemProcess(i))

----------------------------------------------------------------------------
(* Claims on ImagePyramid *)

\* C1: with set_base_image and get_image_at_zoom calls only, the summed memory of
\* the levels held stays within max_memory, except that the level cached last may
\* exceed it by less than the estimate made for that allocation.
C1_MemoryWithinBudget ==
    \/ SumMemory(pyramid) <= max_memory
    \/ /\ Len(pyramid) >= 2
       /\ SumMemory(pyramid) <= max_memory + EstimatedMemory(pyramid[Len(pyramid)])

\* C1 witness: a level was cached whose real size is above its estimate, and the
\* levels together are above the budget
C1_Witness ==
    /\ Len(pyramid) >= 2
    /\ BaseZoom \in Keys(pyramid)
    /\ SumMemory(pyramid) > max_memory

\* C2: a get_image_at_zoom or set_memory_limit step never removes level 1.0
C2_BaseLevelKept ==
    [][(BaseZoom \in Keys(pyramid) /\ (GetImageAtZoom \/ SetMemoryLimit))
        => BaseZoom \in Keys(pyramid')]_vars

\* C2 witness: the last call evicted every other level, the budget is still
\* exceeded, and level 1.0 is still held
C2_Witness ==
    /\ cleanup_log # <<>>
    /\ Keys(pyramid) = {BaseZoom}
    /\ current_memory > max_memory

\* the order of eviction of the common levels: 0.25, 1.5, 2.0, 0.5
CommonEvictionOrder == <<1, 6, 8, 2>>

IsCommon(z) == \E i \in 1..Len(CommonEvictionOrder) : CommonEvictionOrder[i] = z

CommonRank(z) == CHOOSE i \in 1..Len(CommonEvictionOrder) : CommonEvictionOrder[i] = z

\* level a comes strictly before level b in the order [uncommon levels by
\* |zoom - 1.0| descending, then 0.25, 1.5, 2.0, 0.5]
EvictedBefore(a, b) ==
    IF IsCommon(a)
    THEN IsCommon(b) /\ CommonRank(a) < CommonRank(b)
    ELSE IsCommon(b) \/ Abs(a - BaseZoom) > Abs(b - BaseZoom)

\* memory of the first n levels of log, as cached in pyr
RECURSIVE FreedBy(_, _, _)
FreedBy(pyr, log, n) ==
    IF n = 0 THEN 0
    ELSE FreedBy(pyr, log, n - 1) + CalculateImageMemory(LevelImage(Level(pyr, log[n])))

\* log is the shortest prefix of the eviction order of the levels cached in pyr
\* after which cur plus required fits max, or the whole order if none does
ShortestPrefix(pyr, cur, required, max, log) ==
    LET removed    == {log[i] : i \in 1..Len(log)}
        candidates == Keys(pyr) \ {BaseZoom}
    IN  /\ removed \subseteq candidates
        /\ Cardinality(removed) = Len(log)
        /\ \A i, j \in 1..Len(log) : i < j => ~EvictedBefore(log[j], log[i])
        /\ \A r \in removed, k \in candidates \ removed : ~EvictedBefore(k, r)
        /\ \A i \in 1..Len(log) : cur - FreedBy(pyr, log, i - 1) + required > max
        /\ \/ cur - FreedBy(pyr, log, Len(log)) + required <= max
           \/ removed = candidates

UncachedLeavesPyramid ==
    zoom_result'.path = "uncached"
    => /\ zoom_result'.zoom \notin Keys(pyramid')
       /\ current_memory' <= current_memory

C19_BaseLevelWithinBudget ==
    [][SetBaseImage
       => /\ Keys(pyramid') = {BaseZoom}
          /\ CalculateImageMemory(LevelImage(Level(pyramid', BaseZoom))) <= max_memory'
      ]_vars

\* C24: in every reachable state current_memory_mb is the sum of
\* _calculate_image_memory over the levels held in the pyramid, after any
\* sequence of set_base_image, get_image_at_zoom, set_memory_limit and clear
C24_MemoryIsSumOfLevels == current_memory = SumMemory(pyramid)

\* C24 witness: levels were added and then some evicted, and the levels left
\* are not of 3 bytes a pixel
C24_Witness ==
    /\ Len(pyramid) >= 2
    /\ Len(cleanup_log) >= 2
    /\ base_image.mode # "RGB"
    /\ current_memory = SumMemory(pyramid)

\* get_image_at_zoom(z) is a miss on a pyramid holding max_levels levels, with
\* no memory pressure
MissOnFullPyramid(z) ==
    /\ base_image # NoImage
    /\ z \notin Keys(pyramid)
    /\ Len(pyramid) = max_levels
    /\ current_memory + EstimatedMemory(NewSize(base_image, z)) <= max_memory

\* the pyramid never holds more than max_levels levels, and a miss on a full
\* pyramid without memory pressure caches nothing and evicts nothing
FullPyramidKept ==
    /\ Len(pyramid') <= max_levels
    /\ \A z \in ZoomFactors :
          (GetImageAtZoomOf(z) /\ MissOnFullPyramid(z))
          => /\ pyramid' = pyramid
             /\ current_memory' = current_memory
             /\ cleanup_log' = <<>>

----------------------------------------------------------------------------
(* Claims on ProcessingQueue *)

\* how often task t was run
Runs(t) == Cardinality({i \in 1..Len(executed) : executed[i] = t})

\* nothing is left to do: no call in progress, nothing pending or queued, the
\* workers wait for a task, the debounce thread is between two rounds
Settled ==
    /\ s_pc = "idle"
    /\ pending_task = NoTask
    /\ task_queue = <<>>
    /\ \A w \in Workers : w_pc[w] = "get"
    /\ d_pc = "sleep"

\* C3: of a burst of calls each less than debounce_delay after the previous one,
\* only the last is run, and it is run once: when everything has settled, a task
\* followed within debounce_delay by another call was not run, and the task of
\* the last call was run exactly once.
C3_OnlyLastOfBurstRuns ==
    Settled =>
        \A t \in 1..Len(arrival) :
            /\ (t < Len(arrival) /\ arrival[t + 1] - arrival[t] < debounce_delay)
                   => Runs(t) = 0
            /\ t = Len(arrival) => Runs(t) = 1

\* C4: the task of a submit_debounced call that no later call follows is promoted
\* and run: when everything has settled, the task of the last call has been run.
C4_LastTaskRuns ==
    (Settled /\ Len(arrival) >= 1) => Runs(Len(arrival)) >= 1

----------------------------------------------------------------------------
(* Claims on EdgeDetectionParams and EdgeDetectionManager, calls made in turn *)

ParamsCall == {"set_params", "update_params"}

\* C6: when set_params or update_params has returned result_cache is empty, and a
\* detect_edges_sync call made next is a cache miss
C6_ParamsChangeEmptiesCache ==
    [][/\ last_call'.op \in ParamsCall => result_cache' = <<>>
       /\ (last_call.op \in ParamsCall /\ last_call'.op = "detect")
             => /\ ~last_call'.hit
                /\ statistics'.cache_misses = statistics.cache_misses + 1
                /\ last_call'.params = last_call.params]_vars

\* C6 witness: set_params has returned on a manager whose cache was full, and
\* the cache is empty
C6_Witness ==
    /\ last_call.op = "set_params"
    /\ calls = 1
    /\ statistics.cache_misses = cache_size_limit
    /\ result_cache = <<>>

\* the second of two detect_edges_sync calls on the same image, no other call between
SecondOfTwo ==
    /\ last_call.op = "detect"
    /\ last_call'.op = "detect"
    /\ calls' = calls + 1
    /\ last_call'.image = last_call.image

\* a cache hit that returns the edge_count returned before
HitAsBefore ==
    /\ last_call'.hit
    /\ last_call'.edge_count = last_call.edge_count
    /\ statistics'.cache_hits = statistics.cache_hits + 1
    /\ statistics'.cache_misses = statistics.cache_misses
    /\ statistics'.total_processed = statistics.total_processed

\* a detect_edges_sync call that follows a change of threshold1 and is a miss
MissAfterThreshold1Change ==
    (last_call.op \in ParamsCall /\ last_call.threshold1_changed /\ last_call'.op = "detect")
        => (~last_call'.hit /\ statistics'.cache_misses = statistics.cache_misses + 1)

\* C7 as claimed: the second of two consecutive detect_edges_sync calls with the
\* same image and unchanged params is a cache hit with the same edge_count, and a
\* call that follows a change of threshold1 is a cache miss
C7_SecondCallHits ==
    [][(SecondOfTwo => HitAsBefore) /\ MissAfterThreshold1Change]_vars

\* C7 amended: the same, when the detection of the first call did not fail (a
\* failed detection returns a blank result that is not cached, so that the second
\* call is a miss that fails again, with the same edge_count 0)
C7_SecondCallHitsUnlessFailed ==
    [][/\ (SecondOfTwo /\ ~last_call.failed) => HitAsBefore
       /\ (SecondOfTwo /\ last_call.failed)
             => /\ ~last_call'.hit
                /\ last_call'.failed
                /\ last_call'.edge_count = last_call.edge_count
       /\ MissAfterThreshold1Change]_vars

\* C7 witness: a first call on a new manager was a miss, the second call, on the
\* same image, was a hit
C7_Witness ==
    /\ calls = 2
    /\ last_call.op = "detect"
    /\ last_call.hit
    /\ statistics = [total_processed |-> 1, cache_hits |-> 1, cache_misses |-> 1]

\* C10: the parameters of the manager, constructed by EdgeDetectionParams or
\* revalidated by update_params, have both thresholds in 1..255, threshold2 above
\* threshold1, and an odd blur_kernel_size of at least 3
C10_ParamsValid ==
    /\ 1 <= params.threshold1 /\ params.threshold1 <= 255
    /\ 1 <= params.threshold2 /\ params.threshold2 <= 255
    /\ params.threshold2 > params.threshold1
    /\ params.blur_kernel_size % 2 = 1
    /\ params.blur_kernel_size >= 3

----------------------------------------------------------------------------
(* Claims on EdgeDetectionManager, detect_edges_sync run by two worker threads *)

\* C5: result_cache never holds more than cache_size_limit entries, the two worker
\* threads calling detect_edges_sync concurrently
C5_CacheWithinLimit == Len(result_cache) <= cache_size_limit

\* C13: no exception escapes detect_edges_sync: a call whose key computation,
\* detection or cache insertion fails ends by returning a blank result
C13_NoExceptionEscapes == \A w \in Workers : t_local[w].outcome # "raised"

----------------------------------------------------------------------------
(* Claims on CircleDetector.filter_circles *)

IsDescending(cs) == \A i \in 1..(Len(cs) - 1) : cs[i].confidence >= cs[i + 1].confidence

\* cs is what is left of ds after removing some of its elements
RECURSIVE IsSubsequence(_, _)
IsSubsequence(cs, ds) ==
    IF cs = <<>> THEN TRUE
    ELSE IF ds = <<>> THEN FALSE
    ELSE IF Head(cs) = Head(ds) THEN IsSubsequence(Tail(cs), Tail(ds))
    ELSE IsSubsequence(cs, Tail(ds))

\* C8: the list returned by filter_circles has no two circles whose centres are
\* closer than 0.7 times the smaller of their radii
C8_NoOverlapInOutput ==
    filter_call.done =>
        \A i, j \in 1..Len(filtered) : i # j => ~Overlapping(filtered[i], filtered[j])

\* C8 witness: filter_circles was called on three circles that all pass the
\* confidence filter and the limit, and has removed one of them for overlap
C8_Witness ==
    /\ filter_call.done
    /\ Len(circles) = 3
    /\ Len(ConfidentCircles(circles, filter_call.min_confidence)) = 3
    /\ filter_call.max_circles >= 3
    /\ Len(filtered) = 2

\* at most max_circles circles, each of confidence min_confidence or more
WithinLimitAndConfident ==
    /\ Len(filtered) <= filter_call.max_circles
    /\ \A i \in 1..Len(filtered) : filtered[i].confidence >= filter_call.min_confidence

\* C9 as claimed: for every input list filter_circles returns at most max_circles
\* circles, each of confidence min_confidence or more, in descending order of
\* confidence
C9_LimitedConfidentDescending ==
    filter_call.done => (WithinLimitAndConfident /\ IsDescending(filtered))

\* C9 amended: filter_circles returns at most max_circles circles, each of
\* confidence min_confidence or more, in the order they have in the input list,
\* which is descending in confidence when the input list is
C9_LimitedConfidentInInputOrder ==
    filter_call.done =>
        /\ WithinLimitAndConfident
        /\ IsSubsequence(filtered, circles)
        /\ IsDescending(circles) => IsDescending(filtered)

\* C9 witness: filter_circles has cut a list sorted by descending confidence, of
\* differing confidences, down to max_circles
C9_Witness ==
    /\ filter_call.done
    /\ IsDescending(circles)
    /\ Len(circles) > filter_call.max_circles
    /\ Len(filtered) = filter_call.max_circles
    /\ Len(filtered) >= 2
    /\ filtered[1].confidence > filtered[2].confidence

----------------------------------------------------------------------------
(* Claims on CircleCapture *)

\* the box [x-r-p, x+r+p] x [y-r-p, y+r+p] of the call has a pixel in the image
BoxIntersectsImage ==
    LET c == extract_call.circle
        p == extract_call.padding
    IN  /\ Max(0, c.x - c.radius - p) <= Min(extract_call.image.w - 1, c.x + c.radius + p)
        /\ Max(0, c.y - c.radius - p) <= Min(extract_call.image.h - 1, c.y + c.radius + p)

\* C11: extract_circle_region returns null exactly when the box
\* [x-r-p, x+r+p] x [y-r-p, y+r+p] does not intersect the image, and otherwise a
\* region of exactly the columns max(0, x-r-p)..min(W-1, x+r+p) and the rows
\* max(0, y-r-p)..min(H-1, y+r+p), without raising
C11_RegionIsClampedBox ==
    extract_call.done =>
        LET c == extract_call.circle
            p == extract_call.padding
            g == extract_call.region
        IN  /\ g.status # "raises"
            /\ (g.status = "null") <=> ~BoxIntersectsImage
            /\ g.status = "region" =>
                  /\ g.x1 = Max(0, c.x - c.radius - p)
                  /\ g.x2 - 1 = Min(extract_call.image.w - 1, c.x + c.radius + p)
                  /\ g.y1 = Max(0, c.y - c.radius - p)
                  /\ g.y2 - 1 = Min(extract_call.image.h - 1, c.y + c.radius + p)

\* C12 as claimed: every capture_circles call runs the loop body for each circle
\* of its list, and ends with a detection-data record written, of one entry per
\* input circle
C12_AllProcessedRecordEmitted ==
    capture_call.done =>
        /\ capture_call.results.processed =
              [i \in 1..Len(capture_call.circles) |-> i]
        /\ capture_call.record.written
        /\ Len(capture_call.record.circles) = Len(capture_call.circles)

\* C12 amended: a capture_circles call on a non-empty list runs the loop body for
\* each circle and then writes the record, of one entry per input circle, unless
\* writing the record's file itself fails, which leaves detection_data_file null;
\* a call on an empty list returns an error and writes no record
C12_AllProcessedRecordAttempted ==
    capture_call.done =>
        /\ capture_call.results.processed =
              [i \in 1..Len(capture_call.circles) |-> i]
        /\ capture_call.record.written
              <=> (capture_call.circles # <<>> /\ capture_call.write_ok)
        /\ capture_call.results.detection_data_file <=> capture_call.record.written
        /\ capture_call.record.written =>
              /\ Len(capture_call.record.circles) = Len(capture_call.circles)
              /\ \A i \in 1..Len(capture_call.circles) :
                    /\ capture_call.record.circles[i].index = i
                    /\ capture_call.record.circles[i].circle = capture_call.circles[i]
        /\ capture_call.circles = <<>> => capture_call.results.status = "error"

\* C12 witness: the extraction of the first circle raised, the saving of the
\* second failed, the third was captured and saved, and the record was written
C12_Witness ==
    /\ capture_call.done
    /\ Len(capture_call.circles) = 3
    /\ ExtractCircleRegion(CapturedImage, capture_call.circles[1], CapturePadding).status
          = "raises"
    /\ capture_call.save_individual
    /\ capture_call.save_fails = {2}
    /\ capture_call.results.individual_files = <<3>>
    /\ capture_call.record.written
    /\ Len(capture_call.record.circles) = 3

----------------------------------------------------------------------------
(* Claims on CircleDetector *)

IsScore(v) == 0 <= v /\ v <= ScoreOne

\* C14: calculate_confidence returns a value in [0, 1], and exactly 0 when
\* x-r < 0, y-r < 0, x+r >= width or y+r >= height; the three sub-scores are in
\* [0, 1] and are combined with the weights 0.4, 0.4 and 0.2
C14_ConfidenceInUnitInterval ==
    confidence_call.done =>
        LET c == confidence_call
            v == c.scores
        IN  /\ IsScore(v.confidence)
            /\ (c.x - c.radius < 0 \/ c.y - c.radius < 0 \/ c.x + c.radius >= c.w
                 \/ c.y + c.radius >= c.h) => v.confidence = 0
            /\ IsScore(v.edge_score)
            /\ IsScore(v.completeness_score)
            /\ IsScore(v.geometry_score)
            /\ ~OutOfImage(c.w, c.h, c.x, c.y, c.radius) =>
                  10 * v.confidence = 4 * v.edge_score + 4 * v.completeness_score
                                        + 2 * v.geometry_score

\* C14 witness: a circle inside the image with more than a third of its ring on
\* edges, so that the edge score is cut to 1.0, and a confidence strictly between
\* 0 and 1
C14_Witness ==
    /\ confidence_call.done
    /\ ~OutOfImage(confidence_call.w, confidence_call.h, confidence_call.x,
                   confidence_call.y, confidence_call.radius)
    /\ 3 * confidence_call.measures.edge_pixels > confidence_call.measures.circle_pixels
    /\ confidence_call.scores.edge_score = ScoreOne
    /\ confidence_call.scores.confidence > 0
    /\ confidence_call.scores.confidence < ScoreOne

\* v lowered by step but not below floor
Lowered(v, step, floor) == IF v - step < floor THEN floor ELSE v - step

\* v raised by step but not above ceiling
Raised(v, step, ceiling) == IF v + step > ceiling THEN ceiling ELSE v + step

\* C16: auto_adjust_params returns params whose param1 is the detector's lowered
\* by 20 but not below 30 when the mean is < 100, raised by 20 but not above 100
\* when it is > 180, unchanged otherwise; whose param2 is lowered by 10 but not
\* below 20 when the standard deviation is < 30, raised by 10 but not above 50
\* when it is > 80, unchanged otherwise; whose other fields equal the detector's;
\* the detector's own params are left unchanged
C16_AdjustedCopy ==
    adjust_call.done =>
        LET a == adjust_call
        IN  /\ a.mean_intensity < 100 => a.returned.param1 = Lowered(a.before.param1, 20, 30)
            /\ a.mean_intensity > 180 => a.returned.param1 = Raised(a.before.param1, 20, 100)
            /\ (a.mean_intensity >= 100 /\ a.mean_intensity <= 180)
                  => a.returned.param1 = a.before.param1
            /\ a.contrast < 30 => a.returned.param2 = Lowered(a.before.param2, 10, 20)
            /\ a.contrast > 80 => a.returned.param2 = Raised(a.before.param2, 10, 50)
            /\ (a.contrast >= 30 /\ a.contrast <= 80) => a.returned.param2 = a.before.param2
            /\ a.returned.min_dist = a.before.min_dist
            /\ detector_params = a.before

\* C16 witness: a dark image of low contrast, on a detector whose param1 is
\* lowered by the whole step and whose param2 stops at the floor
C16_Witness ==
    /\ adjust_call.done
    /\ adjust_call.mean_intensity < 100
    /\ adjust_call.contrast < 30
    /\ adjust_call.before.param1 = 90
    /\ adjust_call.returned.param1 = 70
    /\ adjust_call.before.param2 = 25
    /\ adjust_call.returned.param2 = 20
    /\ detector_params = adjust_call.before

----------------------------------------------------------------------------
(* Claims on ModernHotkeyManager *)

\* the parts of the string of the call, as the claim reads them: split at "+",
\* spaces around each part dropped
HotkeyParts ==
    LET split == SplitPlus(Strip(hotkey_call.hotkey_str), <<>>)
    IN  [i \in 1..Len(split) |-> Strip(split[i])]

\* C15: validate_hotkey_with_details accepts a string if and only if it has at
\* least one modifier, no modifier twice, and exactly one main key, which is not
\* empty; so that "s", "ctrl+", "ctrl+shift+ctrl" and "s+s" are rejected
C15_AcceptsWellFormedOnly ==
    hotkey_call.done =>
        LET modifiers == SelectSeq(HotkeyParts, IsModifier)
            main_keys == SelectSeq(HotkeyParts, LAMBDA part : ~IsModifier(part))
        IN  hotkey_call.valid <=>
               /\ modifiers # <<>>
               /\ ~HasDuplicates(modifiers)
               /\ Len(main_keys) = 1
               /\ main_keys[1] # <<>>

----------------------------------------------------------------------------
(* Claims on the eviction from result_cache *)

\* the timestamps of the entries of cache: for each, the time of its insertion
\* or of its last hit
Timestamps(cache) == {cache[i].result.timestamp : i \in 1..Len(cache)}

\* C20: the entry that _cache_result removes from a full result_cache is the one
\* least recently inserted or hit: no other entry has an older timestamp, so an
\* entry hit after every other entry was inserted is not the one removed
C20_EvictsLeastRecentlyUsed ==
    [][\A w \in Workers :
          (ThreadDelete(w) /\ t_local[w].oldest_key \in CacheKeys(result_cache))
          => LET removed == result_cache[CacheIndex(result_cache, t_local[w].oldest_key)]
             IN  \A t \in Timestamps(result_cache) : removed.result.timestamp <= t
      ]_vars

----------------------------------------------------------------------------
(* Claims on the overlap removal of filter_circles *)

\* the circles of cs at the indices in K, in the order of cs
RECURSIVE Restrict(_, _)
Restrict(cs, K) ==
    IF cs = <<>> THEN <<>>
    ELSE LET front == Restrict(SubSeq(cs, 1, Len(cs) - 1), K)
         IN  IF Len(cs) \in K THEN Append(front, cs[Len(cs)]) ELSE front

\* the centres of a and b are closer than 0.7 * min(r_a, r_b): squared, in
\* hundredths
CloserThanThreshold(a, b) ==
    LET r  == IF a.radius <= b.radius THEN a.radius ELSE b.radius
        dx == a.x - b.x
        dy == a.y - b.y
    IN  r > 0 /\ 100 * (dx * dx + dy * dy) < 49 * r * r

\* the thresholded and truncated list of the last filter_circles call
Thresholded ==
    Limit(ConfidentCircles(circles, filter_call.min_confidence), filter_call.max_circles)

\* K is the greedy selection in cs: i is in K if and only if no j < i of K is
\* closer to i than the threshold
IsGreedySelection(cs, K) ==
    \A i \in 1..Len(cs) :
        i \in K <=> \A j \in K : j < i => ~CloserThanThreshold(cs[i], cs[j])

\* C21: the circles filter_circles returns are the greedy selection in input
\* order of the thresholded and truncated list: circle i is kept if and only if
\* no kept circle j < i lies closer than 0.7 * min(r_i, r_j); the first circle
\* is kept, and every dropped circle overlaps a kept circle before it
C21_GreedyInInputOrder ==
    filter_call.done =>
        \E K \in SUBSET (1..Len(Thresholded)) :
            /\ filtered = Restrict(Thresholded, K)
            /\ IsGreedySelection(Thresholded, K)
            /\ Thresholded # <<>> => 1 \in K
            /\ \A i \in (1..Len(Thresholded)) \ K :
                  \E j \in K : j < i /\ CloserThanThreshold(Thresholded[i], Thresholded[j])

\* C21 witness: of three circles the second was dropped for overlapping the
\* first, and the third, which overlaps the second only, was kept
C21_Witness ==
    /\ filter_call.done
    /\ Len(Thresholded) = 3
    /\ CloserThanThreshold(Thresholded[2], Thresholded[1])
    /\ CloserThanThreshold(Thresholded[3], Thresholded[2])
    /\ ~CloserThanThreshold(Thresholded[3], Thresholded[1])
    /\ filtered = <<Thresholded[1], Thresholded[3]>>

----------------------------------------------------------------------------
(* Claims on the cache and the parameters in force *)

\* C22: each entry of result_cache is stored under the key of the parameters
\* its edge image was computed with, also when set_params runs while a worker
\* thread is inside detect_edges_sync
C22_EntriesKeyedByTheirParams ==
    \A i \in 1..Len(result_cache) :
        result_cache[i].key.params_hash = result_cache[i].result.params_used

\* the detection of worker w's call has succeeded: the call is inside
\* _cache_result
InsideCacheResult(w) == t_pc[w] \in {"cache_check", "oldest", "delete", "insert"}

\* C23: a detect_edges_sync call whose detection succeeded returns the edge
\* image it computed, never the blank result of the except branch, for every
\* interleaving of the two worker threads
C23_SuccessNeverBlank ==
    [][\A w \in Workers : InsideCacheResult(w) => t_local'[w].outcome # "blank"]_vars

----------------------------------------------------------------------------
(* Claims on ConfigManager *)

\* C26: after any sequence of set calls on keys of the default configuration,
\* reset_to_defaults makes get return the built-in default value of every key
C26_ResetRestoresBuiltIn ==
    config_call = "reset" =>
        \A s \in ConfigSections : \A k \in SectionKeys(s) :
            ConfigGet(s, k) = BuiltInConfig[s][k]

----------------------------------------------------------------------------
(* Claims on BatchProcessor *)

\* the batch was paused and then resumed, and not cancelled
PausedAndResumed ==
    /\ user_calls.pause >= 1
    /\ user_calls.resume >= 1
    /\ ~is_paused
    /\ ~is_cancelled

\* C27: a batch that is paused and later resumed, and never cancelled,
\* eventually reaches the status "completed" with processed_files = total_files,
\* on_batch_completed being called
C27_ResumedBatchCompletes ==
    PausedAndResumed ~>
        \/ is_cancelled
        \/ is_paused
        \/ /\ callbacks.batch >= 1
           /\ progress.processed_files = total_files

\* C28: during one batch run on_item_completed is called at most once for each
\* batch item, however many polling rounds the monitor thread makes
C28_ItemCallbackOnce == \A i \in Items : callbacks.item[i] <= 1

----------------------------------------------------------------------------
(* Claims on ScreenshotCapture *)

\* C29: at most one capture loop thread is taking screenshots at any time, for
\* every sequence of start_continuous_capture and stop_continuous_capture calls
C29_OneLoopCapturing ==
    Cardinality({t \in LoopThreads : loop_pc[t] = "capture"}) <= 1

\* the tasks the workers have executed or are executing
Executing == {executed[i] : i \in 1..Len(executed)} \cup ({w_task[w] : w \in Workers} \ {NoTask})

\* C30, as far as a task pending at shutdown goes: a debounced task that was
\* pending, not yet put on the queue, when shutdown cleared self.running is never
\* executed.
C30_PendingAtShutdownNeverExecuted ==
    sd_pending # NoTask => sd_pending \notin Executing

\* after shutdown has returned, every worker thread and the debounce thread
\* eventually terminate
ShutdownTerminates ==
    (sd_pc = "done") ~> (d_pc = "stopped" /\ \A w \in Workers : w_pc[w] = "stopped")

\* no task submitted after shutdown has returned is ever executed
LateTaskNeverExecuted ==
    sd_pc = "done" => \A t \in Executing : t <= sd_submitted

====
